---------------------------- MODULE Spec2Model ----------------------------
(***************************************************************************)
(* Model of the editing core of dnl-fm/md (src/src-wasm/src/lib.rs): the   *)
(* rope-backed text buffer, the cursor and selection, and the snapshot     *)
(* based undo/redo stacks.                                                 *)
(*                                                                         *)
(* A string is a sequence of characters, each character a one-element      *)
(* TLA+ string.  A Rope is modelled by what ropey exposes of it: the list  *)
(* of its lines, every line but the last ending in its line break.         *)
(***************************************************************************)
EXTENDS Integers, Sequences, FiniteSets, TLC

VARIABLES BUFFER, CURSOR, SELECTION, UNDO_STACK, REDO_STACK,
          IN_CODE_BLOCK, CODE_BLOCK_LANG, ret, panicked,
          app, history, config_file,
          call, hist

\* the thread-local cells beside those of the session: "Track code block state"
fence_cells == <<IN_CODE_BLOCK, CODE_BLOCK_LANG>>

\* The desktop application around the core (src-tauri/src/lib.rs and its
\* variant packages/app/src-tauri/src/lib.rs): `app` is the variant that
\* runs, `history` the field AppConfig.history, `config_file` the history in
\* the file at config_path().  No function of the core touches them.
app_config == <<app, history, config_file>>

codeVars == <<BUFFER, CURSOR, SELECTION, UNDO_STACK, REDO_STACK, fence_cells, ret, panicked>>
vars == <<BUFFER, CURSOR, SELECTION, UNDO_STACK, REDO_STACK, fence_cells, ret, panicked,
          app_config, call, hist>>

(***************************************************************************)
(* Bounds of the model.                                                    *)
(***************************************************************************)
\* longest buffer of the editing-session specification
MaxLen == 1
\* longest buffer of the buffer-operation specification
BufLen == 3
\* longest buffer of the position specification
PosLen == 3
\* longest buffer of the selection specification
SelLen == 3
\* most lines of a document of the highlighting specification
HlDocLines == 4
\* most '#' a line of the heading specification begins with, and the most
\* characters that follow them
HeadingHashes == 7
HeadingTail == 2

\* most characters of a line of the code-line specification
CodeLen == 3

\* most characters of a line of the inline-formatting specification
InlineLen == 3

\* most pieces of a line of the line-classifier specification
LineTokens == 3

\* longest buffer of the frame specification
FrameLen == 1

\* most lines of a document of the repeated-query specification
RepeatLines == 2

\* The history cap of the application, 20 in the source, scaled as the undo
\* stack cap is.
MAX_HISTORY == 2

\* the paths the application is handed, and the longest history a
\* configuration file holds when the application starts
Paths == {"p", "q", "r"}
HistoryLen == 3

\* The undo stack cap.  The source sets 100; the model scales it down so
\* that a full stack, an eviction and everything after them are explored.
\* save_undo_state depends on the cap only through `len > MAX_UNDO_STACK`.
MAX_UNDO_STACK == 3

\* characters of the editing-session specification
SessionChars == {"a"}
\* characters of the buffer-operation specification
BufChars == {"a", "b", "\n"}
\* characters of the selection specification
SelChars == {"a", "b"}
\* characters of the heading specification
HeadingChars == {"#", " ", "a"}
\* characters of the position specification; "é" (U+00E9) is one character
\* of two UTF-8 bytes
PosChars == {"a", "é", "\n"}

\* characters of the code-line specification
CodeChars == {"#", "!", "-", " ", "a", "\""}

Min(a, b) == IF a < b THEN a ELSE b
Max(a, b) == IF a < b THEN b ELSE a

\* all strings over cs of length at most n
StringsUpTo(cs, n) == UNION {[1..k -> cs] : k \in 0..n}

(***************************************************************************)
(* ropey::Rope                                                             *)
(***************************************************************************)
\* ropey also breaks lines at CR, VT, FF, NEL, LS and PS; the alphabets of
\* the model hold none of them
IsLineBreak(c) == c = "\n"

\* index of the first line break of s, 0 if there is none
RECURSIVE FirstBreak(_, _)
FirstBreak(s, i) ==
    IF i > Len(s) THEN 0
    ELSE IF IsLineBreak(s[i]) THEN i
    ELSE FirstBreak(s, i + 1)

\* Rope::from_str: the lines of text, each with its line break; the text
\* after the last line break is the last line, empty or not
RECURSIVE Rope_from_str(_)
Rope_from_str(text) ==
    LET i == FirstBreak(text, 1)
    IN  IF i = 0 THEN <<text>>
        ELSE <<SubSeq(text, 1, i)>> \o Rope_from_str(SubSeq(text, i + 1, Len(text)))

\* Rope::to_string: the lines one after the other
RECURSIVE Rope_to_string(_)
Rope_to_string(rope) ==
    IF rope = <<>> THEN <<>>
    ELSE Head(rope) \o Rope_to_string(Tail(rope))

RECURSIVE len_chars(_)
len_chars(rope) ==
    IF rope = <<>> THEN 0
    ELSE Len(Head(rope)) + len_chars(Tail(rope))

len_lines(rope) == Len(rope)

\* Rope::insert(char_idx, text); ropey panics when char_idx > len_chars
Rope_insert_ok(rope, idx) == idx <= len_chars(rope)
Rope_insert(rope, idx, text) ==
    LET s == Rope_to_string(rope)
    IN  Rope_from_str(SubSeq(s, 1, idx) \o text \o SubSeq(s, idx + 1, Len(s)))

\* Rope::remove(start..end); ropey panics when start > end or end > len_chars
Rope_remove_ok(rope, start, end) == start <= end /\ end <= len_chars(rope)
Rope_remove(rope, start, end) ==
    LET s == Rope_to_string(rope)
    IN  Rope_from_str(SubSeq(s, 1, start) \o SubSeq(s, end + 1, Len(s)))

(***************************************************************************)
(* Phase 2: text buffer                                                    *)
(***************************************************************************)
get_content == Rope_to_string(BUFFER)
get_cursor == CURSOR
char_count == len_chars(BUFFER)
line_count == len_lines(BUFFER)

Unit == <<>>
Some(x) == <<x>>
\* a returned value that is not a bool, with the name of its type
Ret(type, value) == <<type, value>>

\* a panic unwinds out of the call: the state it had reached is kept and
\* no further call is served
Panic ==
    /\ panicked' = TRUE
    /\ UNCHANGED <<BUFFER, CURSOR, SELECTION, UNDO_STACK, REDO_STACK, ret, fence_cells,
                 app_config>>

\* set_content that inserts the text in front of the old content
set_content_inserts(rope, text) == Rope_insert(rope, 0, text)

set_content_replace(rope, text) == Rope_from_str(text)

\* set_content starting a new history, as for a newly opened document
set_content_new_history(text) ==
    /\ BUFFER' = set_content_replace(BUFFER, text)
    /\ UNDO_STACK' = <<>>
    /\ REDO_STACK' = <<>>
    /\ ret' = Unit
    /\ UNCHANGED <<CURSOR, SELECTION, panicked, fence_cells, app_config>>

set_content(text) ==
    /\ BUFFER' = set_content_replace(BUFFER, text)
    /\ ret' = Unit
    /\ UNCHANGED <<CURSOR, SELECTION, UNDO_STACK, REDO_STACK, panicked, fence_cells, app_config>>

\* insert_at without `pos.min(rope.len_chars())`
insert_at_unclamped(pos, rope) == pos

insert_at_pos(pos, rope) == Min(pos, len_chars(rope))

insert_at(pos, text) ==
    LET p == insert_at_pos(pos, BUFFER)
    IN  IF Rope_insert_ok(BUFFER, p)
        THEN /\ BUFFER' = Rope_insert(BUFFER, p, text)
             /\ ret' = Unit
             /\ UNCHANGED <<CURSOR, SELECTION, UNDO_STACK, REDO_STACK, panicked, fence_cells, app_config>>
        ELSE Panic

delete_range_start(start, rope) == Min(start, len_chars(rope))
\* delete_range without `end.min(rope.len_chars())`
delete_range_end_unclamped(end, rope) == end

delete_range_end(end, rope) == Min(end, len_chars(rope))
delete_range_guard(start, end) == start < end

delete_range(start, end) ==
    LET s == delete_range_start(start, BUFFER)
        e == delete_range_end(end, BUFFER)
    IN  IF delete_range_guard(s, e)
        THEN IF Rope_remove_ok(BUFFER, s, e)
             THEN /\ BUFFER' = Rope_remove(BUFFER, s, e)
                  /\ ret' = Unit
                  /\ UNCHANGED <<CURSOR, SELECTION, UNDO_STACK, REDO_STACK, panicked, fence_cells, app_config>>
             ELSE Panic
        ELSE /\ ret' = Unit
             /\ UNCHANGED <<BUFFER, CURSOR, SELECTION, UNDO_STACK, REDO_STACK, panicked, fence_cells, app_config>>

\* replace_range without `start.min(rope.len_chars())`
replace_range_start_unclamped(start, rope) == start

replace_range_start(start, rope) == Min(start, len_chars(rope))
replace_range_end(end, rope) == Min(end, len_chars(rope))

\* the value returned is computed from the shadowed (clamped) start
replace_range(start, end, text) ==
    LET s == replace_range_start(start, BUFFER)
        e == replace_range_end(end, BUFFER)
        removed == IF s < e THEN Rope_remove(BUFFER, s, e) ELSE BUFFER
    IN  IF (s < e => Rope_remove_ok(BUFFER, s, e)) /\ Rope_insert_ok(removed, s)
        THEN /\ BUFFER' = Rope_insert(removed, s, text)
             /\ ret' = Ret("usize", s + Len(text))
             /\ UNCHANGED <<CURSOR, SELECTION, UNDO_STACK, REDO_STACK, panicked, fence_cells, app_config>>
        ELSE Panic

(***************************************************************************)
(* Phase 6: cursor and selection                                           *)
(***************************************************************************)
None == <<>>

\* pos.min(max_pos) of set_cursor
set_cursor_clamp(pos, rope) == Min(pos, len_chars(rope))

set_cursor(pos) ==
    /\ CURSOR' = set_cursor_clamp(pos, BUFFER)
    /\ ret' = Unit
    /\ UNCHANGED <<BUFFER, SELECTION, UNDO_STACK, REDO_STACK, panicked, fence_cells, app_config>>

\* set_selection storing the clamped offsets in the order given
set_selection_pair_as_given(start, end, rope) ==
    LET max_pos == len_chars(rope)
    IN  <<Min(start, max_pos), Min(end, max_pos)>>

set_selection_pair(start, end, rope) ==
    LET max_pos == len_chars(rope)
        s == Min(start, max_pos)
        e == Min(end, max_pos)
    IN  <<Min(s, e), Max(s, e)>>

set_selection(start, end) ==
    /\ SELECTION' = set_selection_pair(start, end, BUFFER)
    /\ ret' = Unit
    /\ UNCHANGED <<BUFFER, CURSOR, UNDO_STACK, REDO_STACK, panicked, fence_cells, app_config>>

clear_selection ==
    /\ SELECTION' = None
    /\ ret' = Unit
    /\ UNCHANGED <<BUFFER, CURSOR, UNDO_STACK, REDO_STACK, panicked, fence_cells, app_config>>

get_selection == SELECTION

(***************************************************************************)
(* Phase 7: undo / redo.  A stack entry is <<content, cursor>>; the last   *)
(* element of the sequence is the top of the Vec.                          *)
(***************************************************************************)
Last(stack) == stack[Len(stack)]
Front(stack) == SubSeq(stack, 1, Len(stack) - 1)

\* save_undo_state comparing the whole (content, cursor) entry
save_undo_differs_entry(stack, entry) ==
    stack = <<>> \/ Last(stack) # entry

\* stack.last().map(|(c, _)| c.as_str()) != Some(content.as_str())
save_undo_differs(stack, entry) ==
    stack = <<>> \/ Last(stack)[1] # entry[1]

\* save_undo_state evicting from the top of the Vec
save_undo_push_evicts_newest(stack, entry) ==
    LET pushed == Append(stack, entry)
    IN  IF Len(pushed) > MAX_UNDO_STACK THEN Front(pushed) ELSE pushed

\* stack.push(..); if stack.len() > MAX_UNDO_STACK { stack.remove(0); }
save_undo_push(stack, entry) ==
    LET pushed == Append(stack, entry)
    IN  IF Len(pushed) > MAX_UNDO_STACK THEN Tail(pushed) ELSE pushed

\* save_undo_state clearing the redo stack only when it pushes
save_undo_state_clears_on_push ==
    LET content == get_content
        cursor == get_cursor
        differs == save_undo_differs(UNDO_STACK, <<content, cursor>>)
    IN  /\ UNDO_STACK' = IF differs
                         THEN save_undo_push(UNDO_STACK, <<content, cursor>>)
                         ELSE UNDO_STACK
        /\ REDO_STACK' = IF differs THEN <<>> ELSE REDO_STACK
        /\ ret' = Unit
        /\ UNCHANGED <<BUFFER, CURSOR, SELECTION, panicked, fence_cells, app_config>>

save_undo_state ==
    LET content == get_content
        cursor == get_cursor
    IN  /\ UNDO_STACK' = IF save_undo_differs(UNDO_STACK, <<content, cursor>>)
                         THEN save_undo_push(UNDO_STACK, <<content, cursor>>)
                         ELSE UNDO_STACK
        /\ REDO_STACK' = <<>>
        /\ ret' = Unit
        /\ UNCHANGED <<BUFFER, CURSOR, SELECTION, panicked, fence_cells, app_config>>

\* undo pushing the restored entry, not the current state, onto the redo stack
undo_pushes_restored ==
    IF UNDO_STACK # <<>>
    THEN LET prev == Last(UNDO_STACK)
         IN  /\ UNDO_STACK' = Front(UNDO_STACK)
             /\ REDO_STACK' = Append(REDO_STACK, prev)
             /\ BUFFER' = set_content_replace(BUFFER, prev[1])
             /\ CURSOR' = set_cursor_clamp(prev[2], BUFFER')
             /\ ret' = Some(TRUE)
             /\ UNCHANGED <<SELECTION, panicked, fence_cells, app_config>>
    ELSE /\ ret' = Some(FALSE)
         /\ UNCHANGED <<BUFFER, CURSOR, SELECTION, UNDO_STACK, REDO_STACK, panicked, fence_cells, app_config>>

\* undo saving the current state to the redo stack before it looks at the
\* undo stack
undo_pushes_first ==
    IF UNDO_STACK # <<>>
    THEN LET prev == Last(UNDO_STACK)
         IN  /\ UNDO_STACK' = Front(UNDO_STACK)
             /\ REDO_STACK' = Append(REDO_STACK, <<get_content, get_cursor>>)
             /\ BUFFER' = set_content_replace(BUFFER, prev[1])
             /\ CURSOR' = set_cursor_clamp(prev[2], BUFFER')
             /\ ret' = Some(TRUE)
             /\ UNCHANGED <<SELECTION, panicked, fence_cells, app_config>>
    ELSE /\ REDO_STACK' = Append(REDO_STACK, <<get_content, get_cursor>>)
         /\ ret' = Some(FALSE)
         /\ UNCHANGED <<BUFFER, CURSOR, SELECTION, UNDO_STACK, panicked, fence_cells, app_config>>

\* undo dropping the selection as it restores content and cursor
undo_clears_selection ==
    IF UNDO_STACK # <<>>
    THEN LET prev == Last(UNDO_STACK)
         IN  /\ UNDO_STACK' = Front(UNDO_STACK)
             /\ REDO_STACK' = Append(REDO_STACK, <<get_content, get_cursor>>)
             /\ BUFFER' = set_content_replace(BUFFER, prev[1])
             /\ CURSOR' = set_cursor_clamp(prev[2], BUFFER')
             /\ SELECTION' = None
             /\ ret' = Some(TRUE)
             /\ UNCHANGED <<panicked, fence_cells, app_config>>
    ELSE /\ ret' = Some(FALSE)
         /\ UNCHANGED <<BUFFER, CURSOR, SELECTION, UNDO_STACK, REDO_STACK, panicked, fence_cells, app_config>>

undo ==
    IF UNDO_STACK # <<>>
    THEN LET prev == Last(UNDO_STACK)
         IN  /\ UNDO_STACK' = Front(UNDO_STACK)
             /\ REDO_STACK' = Append(REDO_STACK, <<get_content, get_cursor>>)
             /\ BUFFER' = set_content_replace(BUFFER, prev[1])
             /\ CURSOR' = set_cursor_clamp(prev[2], BUFFER')
             /\ ret' = Some(TRUE)
             /\ UNCHANGED <<SELECTION, panicked, fence_cells, app_config>>
    ELSE /\ ret' = Some(FALSE)
         /\ UNCHANGED <<BUFFER, CURSOR, SELECTION, UNDO_STACK, REDO_STACK, panicked, fence_cells, app_config>>

\* redo reading the top of the redo stack without popping it
redo_keeps_entry ==
    IF REDO_STACK # <<>>
    THEN LET next == Last(REDO_STACK)
         IN  /\ REDO_STACK' = REDO_STACK
             /\ UNDO_STACK' = Append(UNDO_STACK, <<get_content, get_cursor>>)
             /\ BUFFER' = set_content_replace(BUFFER, next[1])
             /\ CURSOR' = set_cursor_clamp(next[2], BUFFER')
             /\ ret' = Some(TRUE)
             /\ UNCHANGED <<SELECTION, panicked, fence_cells, app_config>>
    ELSE /\ ret' = Some(FALSE)
         /\ UNCHANGED <<BUFFER, CURSOR, SELECTION, UNDO_STACK, REDO_STACK, panicked, fence_cells, app_config>>

redo ==
    IF REDO_STACK # <<>>
    THEN LET next == Last(REDO_STACK)
         IN  /\ REDO_STACK' = Front(REDO_STACK)
             /\ UNDO_STACK' = Append(UNDO_STACK, <<get_content, get_cursor>>)
             /\ BUFFER' = set_content_replace(BUFFER, next[1])
             /\ CURSOR' = set_cursor_clamp(next[2], BUFFER')
             /\ ret' = Some(TRUE)
             /\ UNCHANGED <<SELECTION, panicked, fence_cells, app_config>>
    ELSE /\ ret' = Some(FALSE)
         /\ UNCHANGED <<BUFFER, CURSOR, SELECTION, UNDO_STACK, REDO_STACK, panicked, fence_cells, app_config>>

can_undo == UNDO_STACK # <<>>
can_redo == REDO_STACK # <<>>

clear_undo_redo ==
    /\ UNDO_STACK' = <<>>
    /\ REDO_STACK' = <<>>
    /\ ret' = Unit
    /\ UNCHANGED <<BUFFER, CURSOR, SELECTION, panicked, fence_cells, app_config>>

\* Rope::slice(start..end); ropey panics when start > end or end > len_chars
Rope_slice_ok(rope, start, end) == start <= end /\ end <= len_chars(rope)
Rope_slice(rope, start, end) == SubSeq(Rope_to_string(rope), start + 1, end)

\* get_selected_text slicing at the stored offsets
get_selected_text_unclamped(pos, rope) == pos

\* start.min(rope.len_chars()), end.min(rope.len_chars())
get_selected_text_clamp(pos, rope) == Min(pos, len_chars(rope))

get_selected_text ==
    IF SELECTION = None
    THEN /\ ret' = Ret("Option<String>", None)
         /\ UNCHANGED <<BUFFER, CURSOR, SELECTION, UNDO_STACK, REDO_STACK, panicked, fence_cells, app_config>>
    ELSE LET start == get_selected_text_clamp(SELECTION[1], BUFFER)
             end == get_selected_text_clamp(SELECTION[2], BUFFER)
         IN  IF Rope_slice_ok(BUFFER, start, end)
             THEN /\ ret' = Ret("Option<String>", Some(Rope_slice(BUFFER, start, end)))
                  /\ UNCHANGED <<BUFFER, CURSOR, SELECTION, UNDO_STACK, REDO_STACK,
                                 panicked, fence_cells, app_config>>
             ELSE Panic

(***************************************************************************)
(* Phase 6: positions.  Lines and columns are 0-based.                     *)
(***************************************************************************)
\* char::len_utf8 on the characters of the model
len_utf8(c) == IF c = "é" THEN 2 ELSE 1

\* str::len: the length of a string in UTF-8 bytes
RECURSIVE str_len(_)
str_len(text) ==
    IF text = <<>> THEN 0
    ELSE len_utf8(Head(text)) + str_len(Tail(text))

\* str::chars().count()
chars_count(text) == Len(text)

\* str::trim_end_matches('\n')
RECURSIVE trim_end_matches_newline(_)
trim_end_matches_newline(text) ==
    IF text # <<>> /\ Last(text) = "\n"
    THEN trim_end_matches_newline(Front(text))
    ELSE text

\* Rope::line(line_idx), for line_idx < len_lines
Rope_line(rope, line) == rope[line + 1]

\* Rope::line_to_char(line_idx), for line_idx <= len_lines
RECURSIVE Rope_line_to_char(_, _)
Rope_line_to_char(rope, line) ==
    IF line = 0 THEN 0
    ELSE Len(Head(rope)) + Rope_line_to_char(Tail(rope), line - 1)

\* Rope::char_to_line(char_idx), for char_idx <= len_chars: the line that
\* holds the character, the last line for char_idx = len_chars
RECURSIVE Rope_char_to_line(_, _)
Rope_char_to_line(rope, idx) ==
    IF Len(rope) = 1 \/ idx < Len(Head(rope)) THEN 0
    ELSE 1 + Rope_char_to_line(Tail(rope), idx - Len(Head(rope)))

\* ropey panics when char_idx > len_chars
Rope_char_to_line_ok(rope, idx) == idx <= len_chars(rope)

get_cursor_position_value ==
    LET cursor == Min(CURSOR, len_chars(BUFFER))
        line == Rope_char_to_line(BUFFER, cursor)
        line_start == Rope_line_to_char(BUFFER, line)
        col == cursor - line_start
    IN  [line |-> line, col |-> col, offset |-> cursor]

get_cursor_position ==
    IF Rope_char_to_line_ok(BUFFER, Min(CURSOR, len_chars(BUFFER)))
    THEN /\ ret' = Ret("CursorPosition", get_cursor_position_value)
         /\ UNCHANGED <<BUFFER, CURSOR, SELECTION, UNDO_STACK, REDO_STACK, panicked, fence_cells, app_config>>
    ELSE Panic

\* line_col_to_offset with a column limit that stops before the last
\* character of the line
line_len_before_last(line_content) ==
    Max(0, str_len(trim_end_matches_newline(line_content)) - 1)

\* line_content.trim_end_matches('\n').len()
line_len_without_newline(line_content) ==
    str_len(trim_end_matches_newline(line_content))

line_col_to_offset_value(line, col) ==
    IF line >= len_lines(BUFFER) THEN len_chars(BUFFER)
    ELSE LET line_start == Rope_line_to_char(BUFFER, line)
             line_content == Rope_line(BUFFER, line)
         IN  line_start + Min(col, line_len_without_newline(line_content))

line_col_to_offset(line, col) ==
    /\ ret' = Ret("usize", line_col_to_offset_value(line, col))
    /\ UNCHANGED <<BUFFER, CURSOR, SELECTION, UNDO_STACK, REDO_STACK, panicked, fence_cells, app_config>>

get_line_start(line) ==
    IF line >= len_lines(BUFFER) THEN len_chars(BUFFER)
    ELSE Rope_line_to_char(BUFFER, line)

get_line_end(line) ==
    IF line >= len_lines(BUFFER) THEN len_chars(BUFFER)
    ELSE LET line_start == Rope_line_to_char(BUFFER, line)
             line_content == Rope_line(BUFFER, line)
             line_len == Len(line_content)
         IN  IF line_len > 0 /\ Last(line_content) = "\n"
             THEN line_start + line_len - 1
             ELSE line_start + line_len

(***************************************************************************)
(* Text primitives of the standard library, on the characters of the       *)
(* model (ASCII and "é").                                                  *)
(***************************************************************************)
LowerLetters == <<"a", "b", "c", "d", "e", "f", "g", "h", "i", "j", "k", "l", "m",
                  "n", "o", "p", "q", "r", "s", "t", "u", "v", "w", "x", "y", "z">>
UpperLetters == <<"A", "B", "C", "D", "E", "F", "G", "H", "I", "J", "K", "L", "M",
                  "N", "O", "P", "Q", "R", "S", "T", "U", "V", "W", "X", "Y", "Z">>
Range(f) == {f[k] : k \in DOMAIN f}

\* the characters c with c.is_ascii_digit(), c.is_ascii_hexdigit(),
\* c.is_alphabetic(), c.is_alphanumeric(), c.is_whitespace()
AsciiDigits == {"0", "1", "2", "3", "4", "5", "6", "7", "8", "9"}
AsciiHexDigits ==
    AsciiDigits \cup {"a", "b", "c", "d", "e", "f", "A", "B", "C", "D", "E", "F"}
Alphabetic == Range(LowerLetters) \cup Range(UpperLetters) \cup {"é"}
Alphanumeric == Alphabetic \cup AsciiDigits
Whitespace == {" ", "\t", "\n", "\r"}

\* char::to_lowercase
char_to_lowercase(c) ==
    IF c \in Range(UpperLetters)
    THEN LowerLetters[CHOOSE k \in DOMAIN UpperLetters : UpperLetters[k] = c]
    ELSE c

\* str::to_lowercase
to_lowercase(text) == [k \in DOMAIN text |-> char_to_lowercase(text[k])]

\* str::trim_start, str::trim_end, str::trim
RECURSIVE trim_start(_)
trim_start(text) ==
    IF text # <<>> /\ Head(text) \in Whitespace THEN trim_start(Tail(text))
    ELSE text

RECURSIVE trim_end(_)
trim_end(text) ==
    IF text # <<>> /\ Last(text) \in Whitespace THEN trim_end(Front(text))
    ELSE text

trim(text) == trim_end(trim_start(text))

\* str::starts_with
starts_with(text, prefix) ==
    Len(text) >= Len(prefix) /\ SubSeq(text, 1, Len(prefix)) = prefix

\* text[from..], from a byte offset that is a character offset: the texts
\* sliced by the highlighter are sliced behind ASCII characters
str_from(text, from) == SubSeq(text, from + 1, Len(text))

\* the character U+0060, which a TLA+ string cannot hold
Backtick == "U+0060"

\* chars[i] of a Vec<char>, i counted from 0
ch(chars, i) == chars[i + 1]

\* chars[from..to] as a string
chars_range(chars, from, to) == SubSeq(chars, from + 1, to)

\* `while i < chars.len() && <chars[i] in set> { i += 1 }`: the i it ends with
RECURSIVE scan_while(_, _, _)
scan_while(chars, i, set) ==
    IF i < Len(chars) /\ ch(chars, i) \in set THEN scan_while(chars, i + 1, set)
    ELSE i

\* `while i < chars.len() && chars[i] != c { i += 1 }`: the i it ends with
RECURSIVE scan_until(_, _, _)
scan_until(chars, i, c) ==
    IF i < Len(chars) /\ ch(chars, i) # c THEN scan_until(chars, i + 1, c)
    ELSE i

(***************************************************************************)
(* Phase 5: syntax highlighting.  A function of the highlighter returns    *)
(* [returns, spans]: `returns` is FALSE when the call never comes back.    *)
(***************************************************************************)
Span(text, style) == [text |-> text, style |-> style]

Returned(spans) == [returns |-> TRUE, spans |-> spans]
NeverReturns == [returns |-> FALSE, spans |-> <<>>]

\* `if !current.is_empty() { spans.push(text span); current.clear(); }`
parse_inline_flush(current, spans) ==
    IF current # <<>> THEN Append(spans, Span(current, "text")) ELSE spans

\* `while i + 1 < chars.len() && !(chars[i] == '*' && chars[i + 1] == '*')`
RECURSIVE parse_inline_bold_scan(_, _)
parse_inline_bold_scan(chars, i) ==
    IF i + 1 < Len(chars) /\ ~(ch(chars, i) = "*" /\ ch(chars, i + 1) = "*")
    THEN parse_inline_bold_scan(chars, i + 1)
    ELSE i

\* one iteration of the loop of parse_inline, entered with i < chars.len()
parse_inline_iteration(chars, i, current, spans) ==
    LET len == Len(chars)
        flushed == parse_inline_flush(current, spans)
    IN  IF ch(chars, i) = Backtick
        THEN LET start == i
                 j == scan_until(chars, i + 1, Backtick)
                 code_content == chars_range(chars, i + 1, j)
             IN  IF j < len
                 THEN [i |-> j + 1, current |-> <<>>,
                       spans |-> Append(flushed,
                                   Span(<<Backtick>> \o code_content \o <<Backtick>>, "inline-code"))]
                 ELSE [i |-> start + 1, current |-> <<Backtick>> \o code_content,
                       spans |-> flushed]
        ELSE IF i + 1 < len /\ ch(chars, i) = "*" /\ ch(chars, i + 1) = "*"
        THEN LET j == parse_inline_bold_scan(chars, i + 2)
                 bold_content == chars_range(chars, i + 2, j)
             IN  IF j + 1 < len
                 THEN [i |-> j + 2, current |-> <<>>,
                       spans |-> Append(flushed,
                                   Span(<<"*", "*">> \o bold_content \o <<"*", "*">>, "bold"))]
                 ELSE [i |-> j, current |-> <<"*", "*">> \o bold_content,
                       spans |-> flushed]
        ELSE IF ch(chars, i) = "*" \/ ch(chars, i) = "_"
        THEN LET marker == ch(chars, i)
                 j == scan_until(chars, i + 1, marker)
                 italic_content == chars_range(chars, i + 1, j)
             IN  IF j < len /\ italic_content # <<>>
                 THEN [i |-> j + 1, current |-> <<>>,
                       spans |-> Append(flushed,
                                   Span(<<marker>> \o italic_content \o <<marker>>, "italic"))]
                 ELSE [i |-> j, current |-> <<marker>> \o italic_content,
                       spans |-> flushed]
        ELSE IF ch(chars, i) = "["
        THEN LET start == i
                 j == scan_until(chars, i + 1, "]")
                 link_text == chars_range(chars, i + 1, j)
                 k == scan_until(chars, j + 2, ")")
                 link_url == chars_range(chars, j + 2, k)
             IN  IF /\ j + 1 < len /\ ch(chars, j) = "]" /\ ch(chars, j + 1) = "("
                    /\ k < len
                 THEN [i |-> k + 1, current |-> <<>>,
                       spans |-> Append(flushed,
                                   Span(<<"[">> \o link_text \o <<"]", "(">> \o link_url
                                          \o <<")">>, "link"))]
                 ELSE [i |-> start + 1, current |-> <<"[">>, spans |-> flushed]
        ELSE [i |-> i + 1, current |-> Append(current, ch(chars, i)), spans |-> spans]

RECURSIVE parse_inline_loop(_, _, _, _)
parse_inline_loop(chars, i, current, spans) ==
    IF i < Len(chars)
    THEN LET next == parse_inline_iteration(chars, i, current, spans)
         IN  parse_inline_loop(chars, next.i, next.current, next.spans)
    ELSE parse_inline_flush(current, spans)

parse_inline(text) == parse_inline_loop(text, 0, <<>>, <<>>)

\* one iteration of the loop of highlight_css, entered with i < chars.len():
\* the i it ends with and the span it pushes
highlight_css_iteration(chars, i) ==
    LET len == Len(chars)
        c == ch(chars, i)
    IN  IF c = "#"
        THEN LET j == scan_while(chars, i + 1, AsciiHexDigits)
             IN  [i |-> j,
                  span |-> Span(<<"#">> \o chars_range(chars, i + 1, j), "code-number")]
        ELSE IF c = "\"" \/ c = "'"
        THEN LET j == scan_until(chars, i + 1, c)
             IN  IF j < len
                 THEN [i |-> j + 1,
                       span |-> Span(<<c>> \o chars_range(chars, i + 1, j) \o <<c>>,
                                     "code-string")]
                 ELSE [i |-> j,
                       span |-> Span(<<c>> \o chars_range(chars, i + 1, j), "code-string")]
        ELSE IF c \in AsciiDigits
                \/ (c = "." /\ i + 1 < len /\ ch(chars, i + 1) \in AsciiDigits)
        THEN LET j == scan_while(chars, i, AsciiDigits \cup {"."})
                 k == scan_while(chars, j, Alphabetic)
             IN  [i |-> k, span |-> Span(chars_range(chars, i, k), "code-number")]
        ELSE IF c \in Alphabetic \cup {"-", "_", "@", "."}
        THEN LET j == scan_while(chars, i, Alphanumeric \cup {"-", "_"})
                 word == chars_range(chars, i, j)
                 style == IF starts_with(word, <<"@">>) THEN "code-keyword"
                          ELSE IF j < len /\ ch(chars, j) = ":" THEN "code-property"
                          ELSE IF starts_with(word, <<".">>) THEN "code-type"
                          ELSE "code-block"
             IN  [i |-> j, span |-> Span(word, style)]
        ELSE [i |-> i + 1,
              span |-> Span(<<c>>,
                            IF c \in {"{", "}", "(", ")", "[", "]"} THEN "code-bracket"
                            ELSE IF c \in {":", ";", ","} THEN "code-punctuation"
                            ELSE "code-block")]

\* The loop of highlight_css.  An iteration is a function of chars and i
\* alone: one that ends with the i it began with is followed by the same
\* iteration, for ever, each pushing its span until the allocation fails.
RECURSIVE highlight_css_loop(_, _, _, _)
highlight_css_loop(content, chars, i, spans) ==
    IF i < Len(chars)
    THEN LET next == highlight_css_iteration(chars, i)
         IN  IF next.i = i THEN NeverReturns
             ELSE highlight_css_loop(content, chars, next.i, Append(spans, next.span))
    ELSE Returned(IF spans = <<>> THEN <<Span(content, "code-block")>> ELSE spans)

highlight_css(content) ==
    LET trimmed == trim_start(content)
    IN  IF starts_with(trimmed, <<"/", "*">>) \/ starts_with(trimmed, <<"/", "/">>)
        THEN Returned(<<Span(content, "code-comment")>>)
        ELSE highlight_css_loop(content, content, 0, <<>>)

\* str::eq_ignore_ascii_case, on the characters of the model
eq_ignore_ascii_case(a, b) == to_lowercase(a) = to_lowercase(b)

\* classify_word: the one span of a word
classify_word(word, keywords, types, builtins) ==
    LET style == IF \E k \in keywords : eq_ignore_ascii_case(k, word) THEN "code-keyword"
                 ELSE IF \E t \in types : eq_ignore_ascii_case(t, word) THEN "code-type"
                 ELSE IF \E b \in builtins : eq_ignore_ascii_case(b, word) THEN "code-builtin"
                 ELSE "code-block"
    IN  <<Span(word, style)>>

\* the comment test of tokenize_code on the line as it is, not left-trimmed
tokenize_code_comment_untrimmed(content, comment_start) ==
    comment_start # <<>> /\ starts_with(content, comment_start)

\* `!comment_start.is_empty() && content.trim_start().starts_with(comment_start)`
tokenize_code_comment(content, comment_start) ==
    comment_start # <<>> /\ starts_with(trim_start(content), comment_start)

\* `while i < chars.len() && chars[i] != quote`, a backslash taking the
\* character behind it along: the i and the string_content it ends with
RECURSIVE tokenize_code_string_scan(_, _, _, _)
tokenize_code_string_scan(chars, i, quote, string_content) ==
    IF i < Len(chars) /\ ch(chars, i) # quote
    THEN IF ch(chars, i) = "\\" /\ i + 1 < Len(chars)
         THEN tokenize_code_string_scan(chars, i + 2, quote,
                  string_content \o <<ch(chars, i), ch(chars, i + 1)>>)
         ELSE tokenize_code_string_scan(chars, i + 1, quote,
                  Append(string_content, ch(chars, i)))
    ELSE [i |-> i, string_content |-> string_content]

\* the loop over the characters of a number: the i and the num it ends with
RECURSIVE tokenize_code_number_scan(_, _, _)
tokenize_code_number_scan(chars, i, num) ==
    IF /\ i < Len(chars)
       /\ \/ ch(chars, i) \in AsciiDigits \cup {".", "x", "X"}
          \/ (ch(chars, i) \in AsciiHexDigits /\ starts_with(num, <<"0", "x">>))
    THEN tokenize_code_number_scan(chars, i + 1, Append(num, ch(chars, i)))
    ELSE [i |-> i, num |-> num]

\* `if !current.is_empty() { spans.extend(classify_word(..)); current.clear(); }`
tokenize_code_flush(at, keywords, types, builtins) ==
    IF at.current # <<>>
    THEN at.spans \o classify_word(at.current, keywords, types, builtins)
    ELSE at.spans

\* the span of a character that is neither in a string, a number nor a word
tokenize_code_char_style(c) ==
    IF c \in {"(", ")", "[", "]", "{", "}"} THEN "code-bracket"
    ELSE IF c \in {"=", "+", "-", "*", "/", "%", "<", ">", "!", "&", "|", "^", "~"}
    THEN "code-operator"
    ELSE IF c \in {";", ",", ".", ":"} THEN "code-punctuation"
    ELSE "code-block"

\* the string at i: the closing quote is taken along when there is one
tokenize_code_string(chars, c, scan) ==
    IF scan.i < Len(chars)
    THEN [i |-> scan.i + 1, span |-> Span(Append(scan.string_content, c), "code-string")]
    ELSE [i |-> scan.i, span |-> Span(scan.string_content, "code-string")]

tokenize_code_number(scan) == [i |-> scan.i, span |-> Span(scan.num, "code-number")]

\* the three branches that flush the word and push one span
tokenize_code_push(flushed, token) ==
    [i |-> token.i, current |-> <<>>, spans |-> Append(flushed, token.span)]

\* one iteration of the loop of tokenize_code, entered with i < chars.len();
\* `at` is the i, the current word and the spans the iteration starts with
tokenize_code_at(chars, at, c, keywords, types, builtins, supports_single_quote) ==
    IF c = "\"" \/ (supports_single_quote /\ c = "'")
    THEN tokenize_code_push(
             tokenize_code_flush(at, keywords, types, builtins),
             tokenize_code_string(chars, c,
                 tokenize_code_string_scan(chars, at.i + 1, c, <<c>>)))
    ELSE IF c \in AsciiDigits /\ (at.current = <<>> \/ Last(at.current) \notin Alphanumeric)
    THEN tokenize_code_push(
             tokenize_code_flush(at, keywords, types, builtins),
             tokenize_code_number(tokenize_code_number_scan(chars, at.i, <<>>)))
    ELSE IF c \in Alphanumeric \cup {"_", "$"}
    THEN [i |-> at.i + 1, current |-> Append(at.current, c), spans |-> at.spans]
    ELSE tokenize_code_push(
             tokenize_code_flush(at, keywords, types, builtins),
             [i |-> at.i + 1, span |-> Span(<<c>>, tokenize_code_char_style(c))])

tokenize_code_iteration(chars, at, keywords, types, builtins, supports_single_quote) ==
    tokenize_code_at(chars, at, ch(chars, at.i), keywords, types, builtins,
                     supports_single_quote)

\* `if spans.is_empty() { vec![(content.to_string(), "code-block")] } else { spans }`
tokenize_code_result(content, spans) ==
    IF spans = <<>> THEN <<Span(content, "code-block")>> ELSE spans

RECURSIVE tokenize_code_loop(_, _, _, _, _, _, _)
tokenize_code_loop(content, chars, at, keywords, types, builtins, supports_single_quote) ==
    IF at.i < Len(chars)
    THEN tokenize_code_loop(content, chars,
             tokenize_code_iteration(chars, at, keywords, types, builtins,
                                     supports_single_quote),
             keywords, types, builtins, supports_single_quote)
    ELSE tokenize_code_result(content, tokenize_code_flush(at, keywords, types, builtins))

\* tokenize_code; its parameter _string_chars is not read
tokenize_code(content, keywords, types, builtins, comment_start, supports_single_quote) ==
    IF tokenize_code_comment(content, comment_start)
    THEN <<Span(content, "code-comment")>>
    ELSE tokenize_code_loop(content, content, [i |-> 0, current |-> <<>>, spans |-> <<>>],
                            keywords, types, builtins, supports_single_quote)

\* the word lists of highlight_sql
highlight_sql_keywords ==
    {<<"S", "E", "L", "E", "C", "T">>, <<"F", "R", "O", "M">>, <<"W", "H", "E", "R", "E">>,
     <<"A", "N", "D">>, <<"O", "R">>, <<"N", "O", "T">>, <<"I", "N">>, <<"I", "S">>,
     <<"N", "U", "L", "L">>, <<"L", "I", "K", "E">>, <<"O", "R", "D", "E", "R">>, <<"B", "Y">>,
     <<"G", "R", "O", "U", "P">>, <<"H", "A", "V", "I", "N", "G">>, <<"L", "I", "M", "I", "T">>,
     <<"O", "F", "F", "S", "E", "T">>, <<"J", "O", "I", "N">>, <<"L", "E", "F", "T">>,
     <<"R", "I", "G", "H", "T">>, <<"I", "N", "N", "E", "R">>, <<"O", "U", "T", "E", "R">>,
     <<"O", "N">>, <<"A", "S">>, <<"D", "I", "S", "T", "I", "N", "C", "T">>, <<"A", "L", "L">>,
     <<"U", "N", "I", "O", "N">>, <<"I", "N", "T", "E", "R", "S", "E", "C", "T">>,
     <<"E", "X", "C", "E", "P", "T">>, <<"I", "N", "S", "E", "R", "T">>, <<"I", "N", "T", "O">>,
     <<"V", "A", "L", "U", "E", "S">>, <<"U", "P", "D", "A", "T", "E">>, <<"S", "E", "T">>,
     <<"D", "E", "L", "E", "T", "E">>, <<"C", "R", "E", "A", "T", "E">>,
     <<"A", "L", "T", "E", "R">>, <<"D", "R", "O", "P">>, <<"T", "A", "B", "L", "E">>,
     <<"I", "N", "D", "E", "X">>, <<"V", "I", "E", "W">>,
     <<"D", "A", "T", "A", "B", "A", "S", "E">>, <<"S", "C", "H", "E", "M", "A">>, <<"I", "F">>,
     <<"E", "X", "I", "S", "T", "S">>, <<"P", "R", "I", "M", "A", "R", "Y">>, <<"K", "E", "Y">>,
     <<"F", "O", "R", "E", "I", "G", "N">>, <<"R", "E", "F", "E", "R", "E", "N", "C", "E", "S">>,
     <<"C", "O", "N", "S", "T", "R", "A", "I", "N", "T">>, <<"D", "E", "F", "A", "U", "L", "T">>,
     <<"A", "U", "T", "O", "_", "I", "N", "C", "R", "E", "M", "E", "N", "T">>,
     <<"U", "N", "I", "Q", "U", "E">>, <<"C", "H", "E", "C", "K">>,
     <<"C", "A", "S", "C", "A", "D", "E">>, <<"R", "E", "S", "T", "R", "I", "C", "T">>,
     <<"T", "R", "I", "G", "G", "E", "R">>, <<"P", "R", "O", "C", "E", "D", "U", "R", "E">>,
     <<"F", "U", "N", "C", "T", "I", "O", "N">>, <<"R", "E", "T", "U", "R", "N">>,
     <<"B", "E", "G", "I", "N">>, <<"E", "N", "D">>, <<"C", "O", "M", "M", "I", "T">>,
     <<"R", "O", "L", "L", "B", "A", "C", "K">>,
     <<"T", "R", "A", "N", "S", "A", "C", "T", "I", "O", "N">>, <<"C", "A", "S", "E">>,
     <<"W", "H", "E", "N">>, <<"T", "H", "E", "N">>, <<"E", "L", "S", "E">>, <<"A", "S", "C">>,
     <<"D", "E", "S", "C">>, <<"N", "U", "L", "L", "S">>, <<"F", "I", "R", "S", "T">>,
     <<"L", "A", "S", "T">>, <<"B", "E", "T", "W", "E", "E", "N">>, <<"W", "I", "T", "H">>,
     <<"R", "E", "C", "U", "R", "S", "I", "V", "E">>, <<"O", "V", "E", "R">>,
     <<"P", "A", "R", "T", "I", "T", "I", "O", "N">>, <<"W", "I", "N", "D", "O", "W">>,
     <<"R", "O", "W", "S">>, <<"R", "A", "N", "G", "E">>,
     <<"U", "N", "B", "O", "U", "N", "D", "E", "D">>,
     <<"P", "R", "E", "C", "E", "D", "I", "N", "G">>,
     <<"F", "O", "L", "L", "O", "W", "I", "N", "G">>, <<"C", "U", "R", "R", "E", "N", "T">>}
highlight_sql_types ==
    {<<"I", "N", "T">>, <<"I", "N", "T", "E", "G", "E", "R">>, <<"B", "I", "G", "I", "N", "T">>,
     <<"S", "M", "A", "L", "L", "I", "N", "T">>, <<"T", "I", "N", "Y", "I", "N", "T">>,
     <<"F", "L", "O", "A", "T">>, <<"D", "O", "U", "B", "L", "E">>,
     <<"D", "E", "C", "I", "M", "A", "L">>, <<"N", "U", "M", "E", "R", "I", "C">>,
     <<"R", "E", "A", "L">>, <<"V", "A", "R", "C", "H", "A", "R">>, <<"C", "H", "A", "R">>,
     <<"T", "E", "X", "T">>, <<"B", "L", "O", "B">>, <<"B", "O", "O", "L", "E", "A", "N">>,
     <<"B", "O", "O", "L">>, <<"D", "A", "T", "E">>, <<"T", "I", "M", "E">>,
     <<"D", "A", "T", "E", "T", "I", "M", "E">>, <<"T", "I", "M", "E", "S", "T", "A", "M", "P">>,
     <<"Y", "E", "A", "R">>, <<"J", "S", "O", "N">>, <<"U", "U", "I", "D">>,
     <<"S", "E", "R", "I", "A", "L">>, <<"M", "O", "N", "E", "Y">>}
highlight_sql_builtins ==
    {<<"C", "O", "U", "N", "T">>, <<"S", "U", "M">>, <<"A", "V", "G">>, <<"M", "I", "N">>,
     <<"M", "A", "X">>, <<"C", "O", "A", "L", "E", "S", "C", "E">>,
     <<"N", "U", "L", "L", "I", "F">>, <<"C", "A", "S", "T">>,
     <<"C", "O", "N", "V", "E", "R", "T">>, <<"C", "O", "N", "C", "A", "T">>,
     <<"S", "U", "B", "S", "T", "R", "I", "N", "G">>, <<"T", "R", "I", "M">>,
     <<"U", "P", "P", "E", "R">>, <<"L", "O", "W", "E", "R">>, <<"L", "E", "N", "G", "T", "H">>,
     <<"R", "E", "P", "L", "A", "C", "E">>, <<"N", "O", "W">>,
     <<"C", "U", "R", "R", "E", "N", "T", "_", "D", "A", "T", "E">>,
     <<"C", "U", "R", "R", "E", "N", "T", "_", "T", "I", "M", "E">>,
     <<"C", "U", "R", "R", "E", "N", "T", "_", "T", "I", "M", "E", "S", "T", "A", "M", "P">>,
     <<"E", "X", "T", "R", "A", "C", "T">>,
     <<"D", "A", "T", "E", "_", "F", "O", "R", "M", "A", "T">>,
     <<"D", "A", "T", "E", "D", "I", "F", "F">>, <<"D", "A", "T", "E", "A", "D", "D">>,
     <<"Y", "E", "A", "R">>, <<"M", "O", "N", "T", "H">>, <<"D", "A", "Y">>, <<"H", "O", "U", "R">>,
     <<"M", "I", "N", "U", "T", "E">>, <<"S", "E", "C", "O", "N", "D">>,
     <<"R", "O", "W", "_", "N", "U", "M", "B", "E", "R">>, <<"R", "A", "N", "K">>,
     <<"D", "E", "N", "S", "E", "_", "R", "A", "N", "K">>, <<"N", "T", "I", "L", "E">>,
     <<"L", "A", "G">>, <<"L", "E", "A", "D">>,
     <<"F", "I", "R", "S", "T", "_", "V", "A", "L", "U", "E">>,
     <<"L", "A", "S", "T", "_", "V", "A", "L", "U", "E">>, <<"R", "O", "U", "N", "D">>,
     <<"F", "L", "O", "O", "R">>, <<"C", "E", "I", "L">>, <<"A", "B", "S">>, <<"M", "O", "D">>,
     <<"P", "O", "W", "E", "R">>, <<"S", "Q", "R", "T">>, <<"Q", "U", "A", "R", "T", "E", "R">>}

\* the word lists of highlight_python
highlight_python_keywords ==
    {<<"d", "e", "f">>, <<"c", "l", "a", "s", "s">>, <<"i", "f">>, <<"e", "l", "i", "f">>,
     <<"e", "l", "s", "e">>, <<"f", "o", "r">>, <<"w", "h", "i", "l", "e">>, <<"t", "r", "y">>,
     <<"e", "x", "c", "e", "p", "t">>, <<"f", "i", "n", "a", "l", "l", "y">>,
     <<"w", "i", "t", "h">>, <<"a", "s">>, <<"i", "m", "p", "o", "r", "t">>, <<"f", "r", "o", "m">>,
     <<"r", "e", "t", "u", "r", "n">>, <<"y", "i", "e", "l", "d">>, <<"r", "a", "i", "s", "e">>,
     <<"p", "a", "s", "s">>, <<"b", "r", "e", "a", "k">>,
     <<"c", "o", "n", "t", "i", "n", "u", "e">>, <<"l", "a", "m", "b", "d", "a">>,
     <<"a", "n", "d">>, <<"o", "r">>, <<"n", "o", "t">>, <<"i", "n">>, <<"i", "s">>,
     <<"T", "r", "u", "e">>, <<"F", "a", "l", "s", "e">>, <<"N", "o", "n", "e">>,
     <<"g", "l", "o", "b", "a", "l">>, <<"n", "o", "n", "l", "o", "c", "a", "l">>,
     <<"a", "s", "s", "e", "r", "t">>, <<"d", "e", "l">>, <<"a", "s", "y", "n", "c">>,
     <<"a", "w", "a", "i", "t">>, <<"m", "a", "t", "c", "h">>, <<"c", "a", "s", "e">>}
highlight_python_types ==
    {<<"i", "n", "t">>, <<"f", "l", "o", "a", "t">>, <<"s", "t", "r">>, <<"b", "o", "o", "l">>,
     <<"l", "i", "s", "t">>, <<"d", "i", "c", "t">>, <<"t", "u", "p", "l", "e">>, <<"s", "e", "t">>,
     <<"f", "r", "o", "z", "e", "n", "s", "e", "t">>, <<"b", "y", "t", "e", "s">>,
     <<"b", "y", "t", "e", "a", "r", "r", "a", "y">>, <<"c", "o", "m", "p", "l", "e", "x">>,
     <<"t", "y", "p", "e">>, <<"o", "b", "j", "e", "c", "t">>, <<"N", "o", "n", "e">>}
highlight_python_builtins ==
    {<<"p", "r", "i", "n", "t">>, <<"l", "e", "n">>, <<"r", "a", "n", "g", "e">>,
     <<"e", "n", "u", "m", "e", "r", "a", "t", "e">>, <<"z", "i", "p">>, <<"m", "a", "p">>,
     <<"f", "i", "l", "t", "e", "r">>, <<"s", "o", "r", "t", "e", "d">>,
     <<"r", "e", "v", "e", "r", "s", "e", "d">>, <<"o", "p", "e", "n">>,
     <<"i", "n", "p", "u", "t">>, <<"t", "y", "p", "e">>,
     <<"i", "s", "i", "n", "s", "t", "a", "n", "c", "e">>, <<"h", "a", "s", "a", "t", "t", "r">>,
     <<"g", "e", "t", "a", "t", "t", "r">>, <<"s", "e", "t", "a", "t", "t", "r">>,
     <<"d", "i", "r">>, <<"v", "a", "r", "s">>, <<"i", "d">>, <<"r", "e", "p", "r">>,
     <<"s", "t", "r">>, <<"i", "n", "t">>, <<"f", "l", "o", "a", "t">>, <<"l", "i", "s", "t">>,
     <<"d", "i", "c", "t">>, <<"s", "e", "t">>, <<"t", "u", "p", "l", "e">>, <<"s", "u", "m">>,
     <<"m", "i", "n">>, <<"m", "a", "x">>, <<"a", "b", "s">>, <<"r", "o", "u", "n", "d">>,
     <<"p", "o", "w">>, <<"d", "i", "v", "m", "o", "d">>, <<"a", "l", "l">>, <<"a", "n", "y">>,
     <<"i", "t", "e", "r">>, <<"n", "e", "x", "t">>, <<"s", "u", "p", "e", "r">>,
     <<"c", "l", "a", "s", "s", "m", "e", "t", "h", "o", "d">>,
     <<"s", "t", "a", "t", "i", "c", "m", "e", "t", "h", "o", "d">>,
     <<"p", "r", "o", "p", "e", "r", "t", "y">>, <<"s", "e", "l", "f">>, <<"c", "l", "s">>}

\* the word lists of highlight_bash
highlight_bash_keywords ==
    {<<"i", "f">>, <<"t", "h", "e", "n">>, <<"e", "l", "s", "e">>, <<"e", "l", "i", "f">>,
     <<"f", "i">>, <<"f", "o", "r">>, <<"w", "h", "i", "l", "e">>, <<"d", "o">>,
     <<"d", "o", "n", "e">>, <<"c", "a", "s", "e">>, <<"e", "s", "a", "c">>, <<"i", "n">>,
     <<"f", "u", "n", "c", "t", "i", "o", "n">>, <<"r", "e", "t", "u", "r", "n">>,
     <<"l", "o", "c", "a", "l">>, <<"e", "x", "p", "o", "r", "t">>,
     <<"s", "o", "u", "r", "c", "e">>, <<"a", "l", "i", "a", "s">>,
     <<"u", "n", "a", "l", "i", "a", "s">>, <<"s", "e", "t">>, <<"u", "n", "s", "e", "t">>,
     <<"s", "h", "i", "f", "t">>, <<"e", "x", "i", "t">>, <<"b", "r", "e", "a", "k">>,
     <<"c", "o", "n", "t", "i", "n", "u", "e">>, <<"t", "r", "u", "e">>,
     <<"f", "a", "l", "s", "e">>}
highlight_bash_types ==
    {}
highlight_bash_builtins ==
    {<<"e", "c", "h", "o">>, <<"p", "r", "i", "n", "t", "f">>, <<"r", "e", "a", "d">>, <<"c", "d">>,
     <<"p", "w", "d">>, <<"l", "s">>, <<"c", "a", "t">>, <<"g", "r", "e", "p">>, <<"s", "e", "d">>,
     <<"a", "w", "k">>, <<"c", "u", "t">>, <<"s", "o", "r", "t">>, <<"u", "n", "i", "q">>,
     <<"w", "c">>, <<"h", "e", "a", "d">>, <<"t", "a", "i", "l">>, <<"f", "i", "n", "d">>,
     <<"x", "a", "r", "g", "s">>, <<"m", "k", "d", "i", "r">>, <<"r", "m">>, <<"c", "p">>,
     <<"m", "v">>, <<"c", "h", "m", "o", "d">>, <<"c", "h", "o", "w", "n">>, <<"t", "e", "s", "t">>,
     <<"e", "x", "p", "r">>, <<"e", "v", "a", "l">>, <<"e", "x", "e", "c">>, <<"t", "r", "a", "p">>,
     <<"w", "a", "i", "t">>, <<"k", "i", "l", "l">>}

highlight_sql(content) ==
    tokenize_code(content, highlight_sql_keywords, highlight_sql_types,
                  highlight_sql_builtins, <<"-", "-">>, TRUE)

highlight_python(content) ==
    IF starts_with(trim_start(content), <<"#">>)
    THEN <<Span(content, "code-comment")>>
    ELSE tokenize_code(content, highlight_python_keywords, highlight_python_types,
                       highlight_python_builtins, <<"#">>, TRUE)

highlight_bash(content) ==
    LET trimmed == trim_start(content)
    IN  IF starts_with(trimmed, <<"#">>) /\ ~starts_with(trimmed, <<"#", "!">>)
        THEN <<Span(content, "code-comment")>>
        ELSE tokenize_code(content, highlight_bash_keywords, highlight_bash_types,
                           highlight_bash_builtins, <<"#">>, TRUE)

\* The languages of the model are those of highlight_sql, highlight_python,
\* highlight_bash and highlight_css, and the names that no arm of the match
\* knows; the other arms are not modelled.
highlight_code(content, lang) ==
    IF lang = <<"s", "q", "l">> THEN Returned(highlight_sql(content))
    ELSE IF lang \in {<<"p", "y", "t", "h", "o", "n">>, <<"p", "y">>}
    THEN Returned(highlight_python(content))
    ELSE IF lang \in {<<"b", "a", "s", "h">>, <<"s", "h">>, <<"s", "h", "e", "l", "l">>,
                      <<"z", "s", "h">>}
    THEN Returned(highlight_bash(content))
    ELSE IF lang \in {<<"c", "s", "s">>, <<"s", "c", "s", "s">>, <<"s", "a", "s", "s">>}
    THEN highlight_css(content)
    ELSE Returned(<<Span(content, "code-block")>>)

CodeFence == <<Backtick, Backtick, Backtick>>

\* format!("heading h{}", level), for the levels the format is reached with
heading_style(level) ==
    CASE level = 1 -> "heading h1"
      [] level = 2 -> "heading h2"
      [] level = 3 -> "heading h3"
      [] level = 4 -> "heading h4"
      [] level = 5 -> "heading h5"
      [] level = 6 -> "heading h6"

\* " ".repeat(indent)
repeat_space(indent) == [k \in 1..indent |-> " "]

\* str::find(". "): the offset of the first ". " at or after from, -1 for None
RECURSIVE find_dot_space(_, _)
find_dot_space(text, from) ==
    IF from + 1 >= Len(text) THEN -1
    ELSE IF ch(text, from) = "." /\ ch(text, from + 1) = " " THEN from
    ELSE find_dot_space(text, from + 1)

\* the heading test without the space behind the '#'
is_heading_without_space(content, level) ==
    level <= 6

\* level <= 6 && content.chars().nth(level) == Some(' ')
is_heading(content, level) ==
    level <= 6 /\ Len(content) > level /\ ch(content, level) = " "

\* highlight_line: the spans of the line and the fence state it leaves
highlight_line(content, in_code_block, code_lang) ==
    LET same(result) == [returns |-> result.returns, spans |-> result.spans,
                         in_code_block |-> in_code_block, code_lang |-> code_lang]
        one(style) == same(Returned(<<Span(content, style)>>))
        trimmed_start == trim_start(content)
        indent == str_len(content) - str_len(trimmed_start)
        level == scan_while(content, 0, {"#"})
        dot_pos == find_dot_space(trimmed_start, 0)
    IN  IF starts_with(trimmed_start, CodeFence)
        THEN IF in_code_block
             THEN [returns |-> TRUE, spans |-> <<Span(content, "code-fence")>>,
                   in_code_block |-> FALSE, code_lang |-> <<>>]
             ELSE [returns |-> TRUE, spans |-> <<Span(content, "code-fence")>>,
                   in_code_block |-> TRUE,
                   code_lang |-> to_lowercase(trim(str_from(trimmed_start, 3)))]
        ELSE IF in_code_block THEN same(highlight_code(content, code_lang))
        ELSE IF content = <<>> THEN same(Returned(<<Span(<<>>, "text")>>))
        ELSE IF starts_with(content, <<"#">>) /\ is_heading(content, level)
        THEN one(heading_style(level))
        ELSE IF starts_with(content, <<">">>) THEN one("blockquote")
        ELSE IF trim(content) \in {<<"-", "-", "-">>, <<"*", "*", "*">>, <<"_", "_", "_">>}
        THEN one("hr")
        ELSE IF \/ starts_with(trimmed_start, <<"-", " ">>)
                \/ starts_with(trimmed_start, <<"*", " ">>)
                \/ starts_with(trimmed_start, <<"+", " ">>)
        THEN same(Returned(<<Span(repeat_space(indent), "text"),
                             Span(SubSeq(trimmed_start, 1, 2), "list-marker")>>
                             \o parse_inline(str_from(trimmed_start, 2))))
        ELSE IF /\ dot_pos # -1
                /\ \A k \in 1..dot_pos : trimmed_start[k] \in AsciiDigits
        THEN same(Returned(<<Span(repeat_space(indent), "text"),
                             Span(SubSeq(trimmed_start, 1, dot_pos + 1), "list-marker")>>
                             \o parse_inline(str_from(trimmed_start, dot_pos + 2))))
        ELSE IF \E k \in DOMAIN content : content[k] = "|" THEN one("table")
        ELSE same(Returned(parse_inline(content)))

(***************************************************************************)
(* Phase 1 and 5: the lines of a window                                    *)
(***************************************************************************)
\* usize::MAX.  usize has 32 bits on wasm32; the model scales it to
\* USIZE_BITS bits, the sum of two usize depending on the width only
\* through the value it wraps at.
USIZE_BITS == 4
USIZE_MAX == 2 ^ USIZE_BITS - 1

\* a + b of two usize in a build without overflow checks
wrapping_add(a, b) == (a + b) % (USIZE_MAX + 1)
\* a + b panics in a build with overflow checks when it exceeds usize::MAX
add_overflows(a, b) == a + b > USIZE_MAX

\* Line { num, content } for the lines start..end
visible_lines(rope, start, end) ==
    [k \in 1..(IF end > start THEN end - start ELSE 0) |->
       [num |-> (start + k - 1) + 1,
        content |-> trim_end_matches_newline(Rope_line(rope, start + k - 1))]]

get_visible_lines(start, count) ==
    LET total == len_lines(BUFFER)
        s == Min(start, total)
        end == Min(wrapping_add(s, count), total)
        returns == /\ ret' = Ret("Vec<Line>", visible_lines(BUFFER, s, end))
                   /\ UNCHANGED <<BUFFER, CURSOR, SELECTION, UNDO_STACK, REDO_STACK,
                                  panicked, fence_cells, app_config>>
    IN  IF add_overflows(s, count) THEN Panic \/ returns ELSE returns

\* the pre-scan taking a line for a fence only when it starts with one
prescan_is_fence_unindented(line_content) ==
    starts_with(line_content, CodeFence)

\* trimmed.starts_with("```") of the pre-scan
prescan_is_fence(line_content) ==
    starts_with(trim_start(line_content), CodeFence)

\* `for i in 0..start`: the fence state in front of line start, from the
\* state in front of line i
RECURSIVE prescan(_, _, _, _, _)
prescan(rope, i, start, in_code_block, code_lang) ==
    IF i >= start THEN [in_code_block |-> in_code_block, code_lang |-> code_lang]
    ELSE LET line_content == Rope_line(rope, i)
             trimmed == trim_start(line_content)
         IN  IF prescan_is_fence(line_content)
             THEN IF ~in_code_block
                  THEN prescan(rope, i + 1, start, TRUE,
                               to_lowercase(trim(str_from(trimmed, 3))))
                  ELSE prescan(rope, i + 1, start, FALSE, <<>>)
             ELSE prescan(rope, i + 1, start, in_code_block, code_lang)

\* `(start..end).map(..)`: the HighlightedLine of the lines i..end, the fence
\* state threaded through highlight_line
RECURSIVE highlight_lines(_, _, _, _, _)
highlight_lines(rope, i, end, in_code_block, code_lang) ==
    IF i >= end THEN [returns |-> TRUE, lines |-> <<>>]
    ELSE LET content == trim_end_matches_newline(Rope_line(rope, i))
             line == highlight_line(content, in_code_block, code_lang)
             rest == highlight_lines(rope, i + 1, end, line.in_code_block, line.code_lang)
         IN  IF line.returns /\ rest.returns
             THEN [returns |-> TRUE,
                   lines |-> <<[num |-> i + 1, spans |-> line.spans]>> \o rest.lines]
             ELSE [returns |-> FALSE, lines |-> <<>>]

\* get_highlighted_lines keeping the fence state in the thread-local cells
\* from one call to the next instead of replaying the lines above the window
get_highlighted_lines_from_cells(start, count) ==
    LET total == len_lines(BUFFER)
        s == Min(start, total)
        end == Min(wrapping_add(s, count), total)
        result == highlight_lines(BUFFER, s, end, IN_CODE_BLOCK, CODE_BLOCK_LANG)
        after == prescan(BUFFER, s, end, IN_CODE_BLOCK, CODE_BLOCK_LANG)
        returns == IF result.returns
                   THEN /\ ret' = Ret("Vec<HighlightedLine>", result.lines)
                        /\ IN_CODE_BLOCK' = after.in_code_block
                        /\ CODE_BLOCK_LANG' = after.code_lang
                        /\ UNCHANGED <<BUFFER, CURSOR, SELECTION, UNDO_STACK, REDO_STACK,
                                       panicked, app_config>>
                   ELSE Panic
    IN  IF add_overflows(s, count) THEN Panic \/ returns ELSE returns

\* a call that never returns ends as Panic: no further call is served
get_highlighted_lines(start, count) ==
    LET total == len_lines(BUFFER)
        s == Min(start, total)
        end == Min(wrapping_add(s, count), total)
        state == prescan(BUFFER, 0, s, FALSE, <<>>)
        result == highlight_lines(BUFFER, s, end, state.in_code_block, state.code_lang)
        returns == IF result.returns
                   THEN /\ ret' = Ret("Vec<HighlightedLine>", result.lines)
                        /\ UNCHANGED <<BUFFER, CURSOR, SELECTION, UNDO_STACK, REDO_STACK,
                                       panicked, fence_cells, app_config>>
                   ELSE Panic
    IN  IF add_overflows(s, count) THEN Panic \/ returns ELSE returns

\* reset_highlighting_state: the two cells, which no other function reads or
\* writes, are set to the values they are created with
reset_highlighting_state ==
    /\ IN_CODE_BLOCK' = FALSE
    /\ CODE_BLOCK_LANG' = <<>>
    /\ ret' = Unit
    /\ UNCHANGED <<BUFFER, CURSOR, SELECTION, UNDO_STACK, REDO_STACK, panicked, app_config>>

(***************************************************************************)
(* Observation of a run.  `hist` remembers what the undo/redo properties   *)
(* are stated about:                                                       *)
(*   saved  - the content at the last save_undo_state, while only edits,   *)
(*            cursor and selection calls followed it                       *)
(*   base, depth, multi, viasave, phase - the run undo^k redo^j (j <= k)   *)
(*            of successful calls: the content before its first undo,      *)
(*            k - j, whether k > 1, and whether a redo has been made       *)
(*   done   - what the last call did:                                      *)
(*            "save"    it was save_undo_state                             *)
(*            "evict"   a save that evicted the oldest entry               *)
(*            "discard" a save that emptied a non-empty redo stack         *)
(*            "keep"    a save that pushed nothing although the cursor     *)
(*                      differs from the one of the top entry              *)
(*            "undo", "redo"  a successful undo / redo                     *)
(*            "undo_empty", "redo_empty"  an undo / redo that returned     *)
(*                      false                                              *)
(*            "saved"   an undo from edited content back to the saved one   *)
(*            "run1", "runk"  the last redo of a run with k = 1 / k > 1    *)
(*            "viasave" with them: the first undo of the run was "saved"   *)
(*            "stale"   an undo or redo that popped an entry whose cursor  *)
(*                      exceeds the length of its content                  *)
(*            "reset"   reset_highlighting_state has been called, and only *)
(*                      queries, which leave `hist` as it is, since        *)
(* `call` is the buffer call that returned last, with its arguments and    *)
(* the length it found; only the buffer specification records it.          *)
(***************************************************************************)
NoHist == [saved |-> None, base |-> None, depth |-> 0,
           multi |-> FALSE, viasave |-> FALSE, phase |-> "N", done |-> {}]

NoCall == [op |-> "", args |-> <<>>, n |-> 0]

Observe(op, args) == call' = [op |-> op, args |-> args, n |-> char_count]

\* an edit, cursor or selection call: the save stays in force, a run ends
HistEdit ==
    hist' = [NoHist EXCEPT !.saved = hist.saved]

HistSave ==
    hist' = [NoHist EXCEPT
               !.saved = Some(get_content),
               !.done = {"save"}
                   \cup (IF Len(UNDO_STACK) = MAX_UNDO_STACK /\ UNDO_STACK' # UNDO_STACK
                         THEN {"evict"} ELSE {})
                   \cup (IF REDO_STACK # <<>> THEN {"discard"} ELSE {})
                   \cup (IF /\ UNDO_STACK' = UNDO_STACK
                            /\ UNDO_STACK # <<>>
                            /\ Last(UNDO_STACK)[2] # CURSOR
                         THEN {"keep"} ELSE {})]

Stale(stack) == stack # <<>> /\ Last(stack)[2] > Len(Last(stack)[1])

HistUndo ==
    hist' = IF ret' # Some(TRUE) THEN [NoHist EXCEPT !.done = {"undo_empty"}]
            ELSE [NoHist EXCEPT
                    !.base = IF hist.phase = "U" THEN hist.base ELSE Some(get_content),
                    !.depth = IF hist.phase = "U" THEN hist.depth + 1 ELSE 1,
                    !.multi = hist.phase = "U",
                    !.viasave = IF hist.phase = "U" THEN hist.viasave
                                ELSE hist.saved # None /\ get_content' # get_content,
                    !.phase = "U",
                    !.done = {"undo"}
                        \cup (IF hist.saved # None /\ get_content' # get_content
                              THEN {"saved"} ELSE {})
                        \cup (IF Stale(UNDO_STACK) THEN {"stale"} ELSE {})]

HistRedo ==
    hist' = IF ret' # Some(TRUE) THEN [NoHist EXCEPT !.done = {"redo_empty"}]
            ELSE LET stale == IF Stale(REDO_STACK) THEN {"stale"} ELSE {}
                 IN  IF hist.depth = 0 THEN [NoHist EXCEPT !.done = {"redo"} \cup stale]
                     ELSE IF hist.depth = 1
                     THEN [NoHist EXCEPT
                             !.done = {"redo", IF hist.multi THEN "runk" ELSE "run1"}
                                      \cup (IF hist.viasave THEN {"viasave"} ELSE {})
                                      \cup stale]
                     ELSE [hist EXCEPT !.depth = hist.depth - 1, !.phase = "R",
                                       !.done = {"redo"} \cup stale]

HistClear == hist' = NoHist

Do_set_content(text) == ~panicked /\ set_content(text) /\ HistEdit
Do_insert_at(pos, text) == ~panicked /\ insert_at(pos, text) /\ HistEdit
Do_delete_range(start, end) == ~panicked /\ delete_range(start, end) /\ HistEdit
Do_replace_range(start, end, text) ==
    ~panicked /\ replace_range(start, end, text) /\ HistEdit
Do_set_cursor(pos) == ~panicked /\ set_cursor(pos) /\ HistEdit
Do_set_selection(start, end) == ~panicked /\ set_selection(start, end) /\ HistEdit
Do_clear_selection == ~panicked /\ clear_selection /\ HistEdit
Do_save_undo_state == ~panicked /\ save_undo_state /\ HistSave
Do_undo == ~panicked /\ undo /\ HistUndo
Do_redo == ~panicked /\ redo /\ HistRedo
Do_clear_undo_redo == ~panicked /\ clear_undo_redo /\ HistClear
Do_get_selected_text == ~panicked /\ get_selected_text /\ UNCHANGED hist
Do_get_visible_lines(start, count) ==
    ~panicked /\ get_visible_lines(start, count) /\ UNCHANGED hist
Do_get_highlighted_lines(start, count) ==
    ~panicked /\ get_highlighted_lines(start, count) /\ UNCHANGED hist
Do_reset_highlighting_state ==
    ~panicked /\ reset_highlighting_state /\ hist' = [NoHist EXCEPT !.done = {"reset"}]
Do_get_cursor_position == ~panicked /\ get_cursor_position /\ UNCHANGED hist
Do_line_col_to_offset(line, col) ==
    ~panicked /\ line_col_to_offset(line, col) /\ UNCHANGED hist

(***************************************************************************)
(* The editing session: every call of the cursor, selection, buffer and    *)
(* undo/redo surface, on buffers of at most MaxLen characters.             *)
(***************************************************************************)
Init ==
    /\ BUFFER = Rope_from_str(<<>>)
    /\ CURSOR = 0
    /\ SELECTION = None
    /\ UNDO_STACK = <<>>
    /\ REDO_STACK = <<>>
    /\ IN_CODE_BLOCK = FALSE
    /\ CODE_BLOCK_LANG = <<>>
    /\ ret = Unit
    /\ panicked = FALSE
    /\ app = "src-tauri"
    /\ history = <<>>
    /\ config_file = <<>>
    /\ call = NoCall
    /\ hist = NoHist

\* what a host passes: offsets inside the longest buffer and one beyond it,
\* ranges and selections in either order
SessionOffsets == 0..(MaxLen + 1)
SessionTexts == StringsUpTo(SessionChars, MaxLen)
SessionInserts == {<<0, <<"a">>>>, <<MaxLen + 1, <<"a">>>>}
SessionRanges == {<<0, 1>>, <<0, MaxLen + 1>>, <<1, 0>>}
SessionSelections == {<<MaxLen + 1, 0>>}
\* replace_range over the whole buffer
SessionReplaces == {<<0, MaxLen + 1, <<"a">>>>}

Fits(text, n) == char_count + Len(text) <= n

Next ==
    \/ \E text \in SessionTexts :
          Do_set_content(text) /\ UNCHANGED call
    \/ \E ins \in SessionInserts :
          /\ Fits(ins[2], MaxLen)
          /\ Do_insert_at(ins[1], ins[2])
          /\ UNCHANGED call
    \/ \E range \in SessionRanges :
          Do_delete_range(range[1], range[2]) /\ UNCHANGED call
    \/ \E rep \in SessionReplaces :
          Do_replace_range(rep[1], rep[2], rep[3]) /\ UNCHANGED call
    \/ \E pos \in SessionOffsets :
          Do_set_cursor(pos) /\ UNCHANGED call
    \/ \E sel \in SessionSelections :
          Do_set_selection(sel[1], sel[2]) /\ UNCHANGED call
    \/ Do_clear_selection /\ UNCHANGED call
    \/ Do_save_undo_state /\ UNCHANGED call
    \/ Do_undo /\ UNCHANGED call
    \/ Do_redo /\ UNCHANGED call
    \/ Do_clear_undo_redo /\ UNCHANGED call

Spec == Init /\ [][Next]_vars

(***************************************************************************)
(* The buffer operations alone, on multi-line buffers of at most BufLen    *)
(* characters, observed with their arguments.                              *)
(***************************************************************************)
BufOffsets == 0..(BufLen + 1)
BufTexts == StringsUpTo(BufChars, BufLen)
\* what replace_range inserts: nothing, a character, a line break, two lines
BufInserted == {<<>>, <<"a">>, <<"\n">>, <<"b", "\n">>}

NextBuf ==
    \/ \E text \in BufTexts :
          Do_set_content(text) /\ Observe("set_content", <<text>>)
    \/ \E pos \in BufOffsets, text \in BufTexts :
          /\ Fits(text, BufLen)
          /\ Do_insert_at(pos, text)
          /\ Observe("insert_at", <<pos, text>>)
    \/ \E start \in BufOffsets, end \in BufOffsets :
          Do_delete_range(start, end) /\ Observe("delete_range", <<start, end>>)
    \/ \E start \in BufOffsets, end \in BufOffsets, text \in BufInserted :
          /\ Fits(text, BufLen)
          /\ Do_replace_range(start, end, text)
          /\ Observe("replace_range", <<start, end, text>>)

SpecBuf == Init /\ [][NextBuf]_vars

(***************************************************************************)
(* The position queries, on multi-line buffers of at most PosLen           *)
(* characters, some of them of more than one byte.                         *)
(***************************************************************************)
PosOffsets == 0..(PosLen + 1)
PosTexts == StringsUpTo(PosChars, PosLen)
\* lines up to one beyond the last possible line
PosLines == 0..(PosLen + 1)
\* columns up to one beyond the longest line in bytes
PosCols == 0..(2 * PosLen + 1)

NextPos ==
    \/ \E text \in PosTexts :
          Do_set_content(text) /\ Observe("set_content", <<text>>)
    \/ \E pos \in PosOffsets :
          Do_set_cursor(pos) /\ Observe("set_cursor", <<pos>>)
    \/ Do_get_cursor_position /\ Observe("get_cursor_position", <<>>)
    \/ \E line \in PosLines, col \in PosCols :
          /\ Do_line_col_to_offset(line, col)
          /\ Observe("line_col_to_offset", <<line, col>>)

SpecPos == Init /\ [][NextPos]_vars

(***************************************************************************)
(* The selection: it is set on a buffer that later calls replace or        *)
(* shorten, and read back.                                                 *)
(***************************************************************************)
SelOffsets == 0..(SelLen + 1)
SelTexts == StringsUpTo(SelChars, SelLen)

NextSel ==
    \/ \E text \in SelTexts :
          Do_set_content(text) /\ Observe("set_content", <<text>>)
    \/ \E start \in SelOffsets, end \in SelOffsets :
          Do_delete_range(start, end) /\ Observe("delete_range", <<>>)
    \/ \E start \in SelOffsets, end \in SelOffsets :
          Do_set_selection(start, end) /\ Observe("set_selection", <<start, end>>)
    \/ Do_clear_selection /\ Observe("clear_selection", <<>>)
    \/ Do_get_selected_text /\ Observe("get_selected_text", <<>>)

SpecSel == Init /\ [][NextSel]_vars

(***************************************************************************)
(* The line windows: a document of fenced blocks is loaded and one window  *)
(* of it is asked for.  The lines are a fence with a language no           *)
(* highlighter knows, an indented fence of css in upper case, and two      *)
(* lines of css.                                                           *)
(***************************************************************************)
HlLines == {CodeFence \o <<"x">>,
            <<" ">> \o CodeFence \o <<"C", "S", "S">>,
            <<"@", "a">>,
            <<"a", ":", "1">>}

\* the lines joined by line breaks
RECURSIVE JoinLines(_)
JoinLines(lines) ==
    IF lines = <<>> THEN <<>>
    ELSE IF Len(lines) = 1 THEN Head(lines)
    ELSE Head(lines) \o <<"\n">> \o JoinLines(Tail(lines))

HlDocs == {JoinLines(lines) : lines \in StringsUpTo(HlLines, HlDocLines)}

\* window arguments: inside the document, beyond it, and usize::MAX
HlWindow == 0..(HlDocLines + 1) \cup {USIZE_MAX}

NextHl ==
    \/ \E doc \in HlDocs :
          /\ call = NoCall
          /\ Do_set_content(doc)
          /\ Observe("set_content", <<doc>>)
    \/ \E start \in HlWindow, count \in HlWindow :
          /\ call.op = "set_content"
          /\ Do_get_visible_lines(start, count)
          /\ Observe("get_visible_lines", <<start, count>>)
    \/ \E start \in HlWindow, count \in HlWindow :
          /\ call.op = "set_content"
          /\ Do_get_highlighted_lines(start, count)
          /\ Observe("get_highlighted_lines", <<start, count>>)

SpecHl == Init /\ [][NextHl]_vars

(***************************************************************************)
(* The headings: a document of one line, alone or behind an opening fence, *)
(* is loaded and highlighted.  The line is a run of '#' and a few          *)
(* characters behind it.                                                   *)
(***************************************************************************)
HeadingLines ==
    {[k \in 1..n |-> "#"] \o tail :
       n \in 0..HeadingHashes, tail \in StringsUpTo(HeadingChars, HeadingTail)}
HeadingDocs ==
    HeadingLines \cup {CodeFence \o <<"\n">> \o line : line \in HeadingLines}

NextHeading ==
    \/ \E doc \in HeadingDocs :
          /\ call = NoCall
          /\ Do_set_content(doc)
          /\ Observe("set_content", <<doc>>)
    \/ \E window \in {<<0, 2>>, <<1, 1>>} :
          /\ call.op = "set_content"
          /\ Do_get_highlighted_lines(window[1], window[2])
          /\ Observe("get_highlighted_lines", window)

SpecHeading == Init /\ [][NextHeading]_vars

(***************************************************************************)
(* The lines of code: a document of an opening fence and one line behind   *)
(* it is loaded and highlighted.  The fences name a language of each       *)
(* highlighter of the model that uses tokenize_code.                       *)
(***************************************************************************)
\* the languages, with the comment_start their highlighter hands to
\* tokenize_code
CodeLangs ==
    {[name |-> <<"s", "q", "l">>, comment_start |-> <<"-", "-">>],
     [name |-> <<"p", "y", "t", "h", "o", "n">>, comment_start |-> <<"#">>],
     [name |-> <<"s", "h">>, comment_start |-> <<"#">>]}
CodeLines == StringsUpTo(CodeChars, CodeLen)
CodeDoc(lang, line) == CodeFence \o lang.name \o <<"\n">> \o line

NextCode ==
    \/ /\ call = NoCall
       /\ \E lang \in CodeLangs, line \in CodeLines :
             /\ Do_set_content(CodeDoc(lang, line))
             /\ Observe("set_content", <<lang.name, line>>)
    \/ /\ call.op = "set_content"
       /\ \E window \in {<<0, 2>>, <<1, 1>>} :
             /\ Do_get_highlighted_lines(window[1], window[2])
             /\ Observe("get_highlighted_lines", window)

SpecCode == Init /\ [][NextCode]_vars

(***************************************************************************)
(* Inline formatting: a document of one line of delimiters and letters is  *)
(* loaded and highlighted.                                                 *)
(***************************************************************************)
\* characters of the inline-formatting specification: the opening
\* delimiters of parse_inline and a letter
InlineChars == {Backtick, "*", "_", "[", "a"}
InlineLines == StringsUpTo(InlineChars, InlineLen)

NextInline ==
    \/ /\ call = NoCall
       /\ \E line \in InlineLines :
             Do_set_content(line) /\ Observe("set_content", <<line>>)
    \/ /\ call.op = "set_content"
       /\ Do_get_highlighted_lines(0, 1)
       /\ Observe("get_highlighted_lines", <<0, 1>>)

SpecInline == Init /\ [][NextInline]_vars

(***************************************************************************)
(* The line classifier: a document of one line, alone or behind an opening *)
(* fence, is loaded and highlighted.  The line is made of a few pieces,    *)
(* each the text one of the classifier's tests looks for.                  *)
(***************************************************************************)
LinePieces == {CodeFence, <<"#", " ">>, <<">">>, <<"*", "*", "*">>, <<"-", " ">>,
               <<"1">>, <<".", " ">>, <<"|">>, <<"a">>, <<" ">>, <<"\t">>}

\* the pieces one behind the other
RECURSIVE Flatten(_)
Flatten(pieces) ==
    IF pieces = <<>> THEN <<>> ELSE Head(pieces) \o Flatten(Tail(pieces))

ClassifierLines == {Flatten(pieces) : pieces \in StringsUpTo(LinePieces, LineTokens)}
ClassifierDocs ==
    ClassifierLines \cup {CodeFence \o <<"\n">> \o line : line \in ClassifierLines}

NextLine ==
    \/ /\ call = NoCall
       /\ \E doc \in ClassifierDocs :
             Do_set_content(doc) /\ Observe("set_content", <<doc>>)
    \/ /\ call.op = "set_content"
       /\ \E window \in {<<0, 2>>, <<1, 1>>} :
             /\ Do_get_highlighted_lines(window[1], window[2])
             /\ Observe("get_highlighted_lines", window)

SpecLine == Init /\ [][NextLine]_vars

(***************************************************************************)
(* The frame of the calls: the editing session again, each call recorded   *)
(* by its name.                                                            *)
(***************************************************************************)
FrameTexts == StringsUpTo(SessionChars, FrameLen)

\* the call returns and is recorded by its name
Called(op) == ~panicked /\ call' = [NoCall EXCEPT !.op = op] /\ UNCHANGED hist

NextFrame ==
    \/ \E text \in FrameTexts : set_content(text) /\ Called("set_content")
    \/ \E pos \in {0, FrameLen + 1} :
          Fits(<<"a">>, FrameLen) /\ insert_at(pos, <<"a">>) /\ Called("insert_at")
    \/ \E range \in {<<0, 1>>, <<1, 0>>} :
          delete_range(range[1], range[2]) /\ Called("delete_range")
    \/ replace_range(0, FrameLen + 1, <<"a">>) /\ Called("replace_range")
    \/ \E pos \in {0, FrameLen + 1} : set_cursor(pos) /\ Called("set_cursor")
    \/ set_selection(FrameLen + 1, 0) /\ Called("set_selection")
    \/ clear_selection /\ Called("clear_selection")
    \/ save_undo_state /\ Called("save_undo_state")
    \/ undo /\ Called("undo")
    \/ redo /\ Called("redo")

SpecFrame == Init /\ [][NextFrame]_vars

(***************************************************************************)
(* Repeated queries: a document of fences and text is loaded and one       *)
(* window of it is highlighted; `call` keeps that window and its result    *)
(* while further windows are asked for and reset_highlighting_state is     *)
(* called, in any order.                                                   *)
(***************************************************************************)
RepeatDocs ==
    {JoinLines(lines) :
       lines \in StringsUpTo({CodeFence, <<"a">>, <<"#", " ">>}, RepeatLines) \ {<<>>}}
RepeatWindows == (0..1) \X (1..RepeatLines)

NextRepeat ==
    \/ /\ call = NoCall
       /\ \E doc \in RepeatDocs :
             Do_set_content(doc) /\ Observe("set_content", <<doc>>)
    \/ /\ call.op = "set_content"
       /\ \E window \in RepeatWindows :
             /\ Do_get_highlighted_lines(window[1], window[2])
             /\ Observe("get_highlighted_lines", <<window[1], window[2], ret'>>)
    \/ /\ call.op = "get_highlighted_lines"
       /\ \E window \in RepeatWindows :
             Do_get_highlighted_lines(window[1], window[2])
       /\ UNCHANGED call
    \/ /\ call.op = "get_highlighted_lines"
       /\ Do_reset_highlighting_state
       /\ UNCHANGED call

SpecRepeat == Init /\ [][NextRepeat]_vars

(***************************************************************************)
(* The application's history of opened files (src-tauri/src/lib.rs and     *)
(* packages/app/src-tauri/src/lib.rs).  A history is the VecDeque as the   *)
(* sequence of its entries from front to back.                             *)
(***************************************************************************)
\* a retain that keeps every entry
retain_everything(entries, path) == entries

\* self.history.retain(|p| p != path)
retain(entries, path) == SelectSeq(entries, LAMBDA p : p # path)

\* while self.history.len() > MAX_HISTORY { self.history.pop_back(); }
RECURSIVE pop_back_while_over(_)
pop_back_while_over(entries) ==
    IF Len(entries) > MAX_HISTORY THEN pop_back_while_over(Front(entries)) ELSE entries

\* while self.history.len() > MAX_HISTORY { self.history.pop_front(); }
RECURSIVE pop_front_while_over(_)
pop_front_while_over(entries) ==
    IF Len(entries) > MAX_HISTORY THEN pop_front_while_over(Tail(entries)) ELSE entries

\* AppConfig::save: the configuration is written to the file, and every
\* failure on the way (no home directory, no serialisation, no write) is
\* dropped, the file keeping what it held
save ==
    config_file' \in {history', config_file}

\* AppConfig::add_to_history of src-tauri: the most recent entry is the front
src_tauri_add_to_history(path) ==
    /\ history' = pop_back_while_over(<<path>> \o retain(history, path))
    /\ save
    /\ UNCHANGED <<app, codeVars>>

\* AppConfig::remove_from_history of src-tauri
src_tauri_remove_from_history(path) ==
    /\ history' = retain(history, path)
    /\ save
    /\ UNCHANGED <<app, codeVars>>

\* AppConfig::add_to_history of packages/app: the most recent entry is the back
packages_app_add_to_history(path) ==
    /\ history' = pop_front_while_over(Append(retain(history, path), path))
    /\ save
    /\ UNCHANGED <<app, codeVars>>

\* AppConfig::remove_from_history of packages/app
packages_app_remove_from_history(path) ==
    /\ history' = retain(history, path)
    /\ save
    /\ UNCHANGED <<app, codeVars>>

(***************************************************************************)
(* Specification SpecHistory: one of the two variants runs.  It starts     *)
(* from AppConfig::load, which takes the history the configuration file    *)
(* holds, whatever its length and whatever it repeats (an absent or        *)
(* unreadable file gives the empty history), and is then handed any        *)
(* sequence of add_to_history and remove_from_history commands.            *)
(***************************************************************************)
Variants == {"src-tauri", "packages/app"}

RECURSIVE HistoriesOfLen(_)
HistoriesOfLen(n) ==
    IF n = 0 THEN {<<>>}
    ELSE {Append(h, p) : h \in HistoriesOfLen(n - 1), p \in Paths}

PriorHistories == UNION {HistoriesOfLen(n) : n \in 0..HistoryLen}

InitHistory ==
    /\ BUFFER = Rope_from_str(<<>>)
    /\ CURSOR = 0
    /\ SELECTION = None
    /\ UNDO_STACK = <<>>
    /\ REDO_STACK = <<>>
    /\ IN_CODE_BLOCK = FALSE
    /\ CODE_BLOCK_LANG = <<>>
    /\ ret = Unit
    /\ panicked = FALSE
    /\ app \in Variants
    /\ config_file \in PriorHistories
    /\ history = config_file
    /\ call = NoCall
    /\ hist = NoHist

NextHistory ==
    \/ /\ app = "src-tauri"
       /\ \E path \in Paths :
            /\ src_tauri_add_to_history(path)
            /\ Observe("add_to_history", <<path>>)
            /\ UNCHANGED hist
    \/ /\ app = "src-tauri"
       /\ \E path \in Paths :
            /\ src_tauri_remove_from_history(path)
            /\ Observe("remove_from_history", <<path>>)
            /\ UNCHANGED hist
    \/ /\ app = "packages/app"
       /\ \E path \in Paths :
            /\ packages_app_add_to_history(path)
            /\ Observe("add_to_history", <<path>>)
            /\ UNCHANGED hist
    \/ /\ app = "packages/app"
       /\ \E path \in Paths :
            /\ packages_app_remove_from_history(path)
            /\ Observe("remove_from_history", <<path>>)
            /\ UNCHANGED hist

SpecHistory == InitHistory /\ [][NextHistory]_vars

(***************************************************************************)
(* Undo / redo properties (specification Spec)                             *)
(***************************************************************************)
\* the step is a call of save_undo_state, undo, redo
SaveStep == "save" \in hist'.done /\ Do_save_undo_state
UndoStep == ("undo" \in hist'.done \/ "undo_empty" \in hist'.done) /\ Do_undo
RedoStep == ("redo" \in hist'.done \/ "redo_empty" \in hist'.done) /\ Do_redo

\* C1: after save_undo_state and then edits, undo succeeds and get_content
\* is the content at the save; the redo that completes a run of k successful
\* undos and k redos (k = 1: the redo right after an undo) succeeds and
\* get_content is the content before the first undo of the run.
C1_UndoRedoRestoreContent ==
    [][ /\ (UndoStep /\ hist.saved # None
              => ret' = Some(TRUE) /\ get_content' = hist.saved[1])
        /\ (RedoStep /\ hist.depth = 1
              => ret' = Some(TRUE) /\ get_content' = hist.base[1]) ]_vars

\* a run of k > 1 undos and k redos has completed, its first undo having
\* gone back over an edit to the saved content
C1_Witness == {"runk", "viasave"} \subseteq hist.done

\* C2: the undo stack never holds more than MAX_UNDO_STACK entries, and a
\* save that pushes onto a full stack removes the entry at index 0 and keeps
\* the others in order below the pushed one.
C2_UndoStackCapped ==
    /\ [](Len(UNDO_STACK) <= MAX_UNDO_STACK)
    /\ [][ /\ SaveStep
           /\ Len(UNDO_STACK) = MAX_UNDO_STACK
           /\ Last(UNDO_STACK)[1] # get_content
           => UNDO_STACK' = Append(Tail(UNDO_STACK), <<get_content, get_cursor>>) ]_vars

\* a save has pushed onto a full stack
C2_Witness == "evict" \in hist.done /\ Len(UNDO_STACK) = MAX_UNDO_STACK

\* C3: every save_undo_state leaves the redo stack empty, so can_redo is
\* false and a redo called next returns false.
C3_SaveClearsRedo ==
    [][ /\ (SaveStep => REDO_STACK' = <<>> /\ ~can_redo')
        /\ ("save" \in hist.done /\ RedoStep => ret' = Some(FALSE)) ]_vars

\* a save has been called with entries on the redo stack, and pushed nothing
C3_Witness == {"discard", "keep"} \subseteq hist.done /\ REDO_STACK = <<>>

\* C4: save_undo_state pushes (content, cursor) exactly when the undo stack
\* is empty or the content differs from the content of the top entry; with
\* the same content the stack is unchanged whatever the cursor.
C4_SavePushesIffContentDiffers ==
    [][ SaveStep =>
          IF UNDO_STACK = <<>> \/ Last(UNDO_STACK)[1] # get_content
          THEN /\ UNDO_STACK' # <<>>
               /\ Last(UNDO_STACK') = <<get_content, get_cursor>>
               /\ Front(UNDO_STACK') = IF Len(UNDO_STACK) = MAX_UNDO_STACK
                                       THEN Tail(UNDO_STACK) ELSE UNDO_STACK
          ELSE UNDO_STACK' = UNDO_STACK ]_vars

\* a save has pushed nothing although the cursor is not that of the top entry
C4_Witness == "keep" \in hist.done /\ Last(UNDO_STACK)[2] # get_cursor

\* C5: undo (redo) returns can_undo (can_redo) as it was before the call,
\* and when that is false it leaves content, cursor, selection and both
\* stacks unchanged.
C5_EmptyUndoRedoIsNoOp ==
    [][ /\ (UndoStep =>
              /\ ret' = Some(can_undo)
              /\ (~can_undo =>
                    UNCHANGED <<BUFFER, CURSOR, SELECTION, UNDO_STACK, REDO_STACK>>))
        /\ (RedoStep =>
              /\ ret' = Some(can_redo)
              /\ (~can_redo =>
                    UNCHANGED <<BUFFER, CURSOR, SELECTION, UNDO_STACK, REDO_STACK>>)) ]_vars

\* undo has returned false on a session with content, selection and redo entries
C5_Witness ==
    /\ "undo_empty" \in hist.done
    /\ ret = Some(FALSE)
    /\ char_count > 0 /\ SELECTION # None /\ REDO_STACK # <<>>

\* C6: after a successful undo (redo) get_cursor is the cursor recorded in
\* the popped entry.
C6_CursorRestoredExactly ==
    [][ /\ (UndoStep /\ can_undo => get_cursor' = Last(UNDO_STACK)[2])
        /\ (RedoStep /\ can_redo => get_cursor' = Last(REDO_STACK)[2]) ]_vars

\* C7: get_cursor and both ends of get_selection are at most char_count.
C7_OffsetsWithinBuffer ==
    /\ get_cursor <= char_count
    /\ get_selection # None =>
         get_selection[1] <= char_count /\ get_selection[2] <= char_count

\* C16: a call other than save_undo_state, undo, redo and clear_undo_redo
\* (insert_at, delete_range, replace_range, set_content, set_cursor,
\* set_selection, clear_selection) changes neither the undo nor the redo
\* stack: a step that changes one of them and is not a save, an undo or a
\* redo is a clear_undo_redo.
C16_EditsKeepStacks ==
    [][ /\ hist'.done = {}
        /\ (UNDO_STACK' # UNDO_STACK \/ REDO_STACK' # REDO_STACK)
        => Do_clear_undo_redo ]_vars

\* the content has been changed since the last save, by calls that are
\* not undo/redo calls, with entries on the undo stack
C16_Witness ==
    /\ hist.done = {}
    /\ hist.saved # None /\ get_content # hist.saved[1]
    /\ UNDO_STACK # <<>>

\* C26: the undo and the redo stack together never hold more than
\* MAX_UNDO_STACK entries: a successful undo (redo) moves one entry's place
\* from the undo (redo) stack to the other, a save leaves the redo stack
\* empty and at most MAX_UNDO_STACK entries on the undo stack, and
\* clear_undo_redo leaves both empty.
C26_StacksTogetherCapped ==
    /\ [](Len(UNDO_STACK) + Len(REDO_STACK) <= MAX_UNDO_STACK)
    /\ [][ /\ (UndoStep /\ can_undo =>
                /\ Len(UNDO_STACK') = Len(UNDO_STACK) - 1
                /\ Len(REDO_STACK') = Len(REDO_STACK) + 1)
           /\ (RedoStep /\ can_redo =>
                /\ Len(REDO_STACK') = Len(REDO_STACK) - 1
                /\ Len(UNDO_STACK') = Len(UNDO_STACK) + 1)
           /\ (SaveStep =>
                REDO_STACK' = <<>> /\ Len(UNDO_STACK') <= MAX_UNDO_STACK)
           /\ (Do_clear_undo_redo =>
                UNDO_STACK' = <<>> /\ REDO_STACK' = <<>>) ]_vars

\* an undo from a full undo stack: the stacks hold MAX_UNDO_STACK entries
\* between them
C26_Witness ==
    /\ "undo" \in hist.done
    /\ REDO_STACK # <<>>
    /\ Len(UNDO_STACK) + Len(REDO_STACK) = MAX_UNDO_STACK

(***************************************************************************)
(* Buffer properties (specification SpecBuf)                               *)
(***************************************************************************)

\* C8: right after set_content(s), get_content is s.
C8_SetContentRoundTrip ==
    call.op = "set_content" => get_content = call.args[1]

\* set_content has replaced a non-empty buffer by a multi-line text
C8_Witness ==
    /\ call.op = "set_content"
    /\ call.n > 0
    /\ line_count > 1 /\ char_count > 1

\* C9: insert_at(pos, text) does not panic and the content becomes the old
\* content with text inserted at offset min(pos, old length).
C9_InsertAtClamps ==
    [][ call'.op = "insert_at" =>
          LET old == get_content
              p == Min(call'.args[1], Len(old))
          IN  /\ ~panicked'
              /\ get_content' = SubSeq(old, 1, p) \o call'.args[2]
                                   \o SubSeq(old, p + 1, Len(old)) ]_vars

\* insert_at has been called on a non-empty buffer with pos beyond its end
C9_Witness ==
    /\ call.op = "insert_at"
    /\ call.n > 0 /\ call.args[1] > call.n
    /\ call.args[2] # <<>>

\* C10: delete_range(start, end) does not panic; with s and e the bounds
\* clamped to the length, the buffer is unchanged if s >= e and otherwise
\* the content is the old content without the characters at [s, e).
C10_DeleteRangeClamps ==
    [][ call'.op = "delete_range" =>
          LET old == get_content
              s == Min(call'.args[1], Len(old))
              e == Min(call'.args[2], Len(old))
          IN  /\ ~panicked'
              /\ IF s >= e
                 THEN BUFFER' = BUFFER
                 ELSE get_content' = SubSeq(old, 1, s) \o SubSeq(old, e + 1, Len(old)) ]_vars

\* delete_range has removed characters from the middle of the buffer
C10_Witness ==
    /\ call.op = "delete_range"
    /\ 0 < call.args[1] /\ call.args[1] < call.args[2] /\ call.args[2] < call.n
    /\ char_count = call.n - (call.args[2] - call.args[1])

\* C11 (as stated): replace_range(start, end, text) does not panic, leaves
\* the buffer as delete_range(start, end) followed by insert_at(start, text)
\* leaves it, and returns start + the number of characters of text.
C11_ReplaceRangeReturnsRawStart ==
    [][ call'.op = "replace_range" =>
          LET start == call'.args[1]
              end == call'.args[2]
              text == call'.args[3]
              s == delete_range_start(start, BUFFER)
              e == delete_range_end(end, BUFFER)
              deleted == IF delete_range_guard(s, e)
                         THEN Rope_remove(BUFFER, s, e) ELSE BUFFER
              inserted == Rope_insert(deleted, insert_at_pos(start, deleted), text)
          IN  /\ ~panicked'
              /\ BUFFER' = inserted
              /\ UNCHANGED <<CURSOR, SELECTION, UNDO_STACK, REDO_STACK>>
              /\ ret' = Ret("usize", start + Len(text)) ]_vars

\* C11 (amended): replace_range(start, end, text) does not panic, leaves the
\* buffer as delete_range(start, end) followed by insert_at(start, text)
\* leaves it, and returns min(start, old length) + the number of characters
\* of text.
C11_ReplaceRangeEquivalence ==
    [][ call'.op = "replace_range" =>
          LET start == call'.args[1]
              end == call'.args[2]
              text == call'.args[3]
              s == delete_range_start(start, BUFFER)
              e == delete_range_end(end, BUFFER)
              deleted == IF delete_range_guard(s, e)
                         THEN Rope_remove(BUFFER, s, e) ELSE BUFFER
              inserted == Rope_insert(deleted, insert_at_pos(start, deleted), text)
          IN  /\ ~panicked'
              /\ BUFFER' = inserted
              /\ UNCHANGED <<CURSOR, SELECTION, UNDO_STACK, REDO_STACK>>
              /\ ret' = Ret("usize", Min(start, char_count) + Len(text)) ]_vars

\* replace_range has been called with start beyond the end of a non-empty
\* buffer and a text to insert
C11_Witness ==
    /\ call.op = "replace_range"
    /\ call.n > 0 /\ call.args[1] > call.n
    /\ call.args[3] # <<>>
    /\ ret = Ret("usize", call.n + Len(call.args[3]))

(***************************************************************************)
(* Position properties (specification SpecPos)                             *)
(***************************************************************************)

\* C12: for line < line_count, line_col_to_offset(line, col) is
\* get_line_start(line) + min(col, number of characters of the line without
\* its terminator), and is at most get_line_end(line) and char_count; for
\* line >= line_count it is char_count.
C12_LineColToOffsetClampsToLine ==
    call.op = "line_col_to_offset" =>
      LET line == call.args[1]
          col == call.args[2]
      IN  IF line < line_count
          THEN LET content == trim_end_matches_newline(Rope_line(BUFFER, line))
               IN  /\ ret[2] = get_line_start(line) + Min(col, chars_count(content))
                   /\ ret[2] <= get_line_end(line)
                   /\ ret[2] <= char_count
          ELSE ret[2] = char_count

\* C13: when line_col_to_offset is called with the line and column that
\* get_cursor_position has just reported for the offset o, it returns o.
C13_PositionRoundTrip ==
    [][ /\ call.op = "get_cursor_position"
        /\ call'.op = "line_col_to_offset"
        /\ call'.args = <<ret[2].line, ret[2].col>>
        => ret' = Ret("usize", ret[2].offset) ]_vars

\* the round trip has been made for the offset at the end of a line that is
\* not the first and holds a character of two bytes
C13_Witness ==
    /\ call.op = "line_col_to_offset"
    /\ call.args = <<get_cursor_position_value.line, get_cursor_position_value.col>>
    /\ ret = Ret("usize", CURSOR)
    /\ call.args[1] > 0 /\ call.args[2] > 0
    /\ CURSOR = get_line_end(call.args[1])
    /\ \E i \in 1..Len(get_content) : get_content[i] = "é"

(***************************************************************************)
(* Selection properties (specification SpecSel)                            *)
(***************************************************************************)

\* C14: set_selection(a, b) stores (min(a', b'), max(a', b')), a' and b'
\* being a and b clamped to char_count; a selection that is present always
\* has start <= end.
C14_SelectionNormalised ==
    /\ [](get_selection # None => get_selection[1] <= get_selection[2])
    /\ [][ call'.op = "set_selection" =>
             LET a == Min(call'.args[1], char_count)
                 b == Min(call'.args[2], char_count)
             IN  get_selection' = <<Min(a, b), Max(a, b)>> ]_vars

\* set_selection has been called with its offsets in descending order, the
\* first beyond the end of the buffer, and has stored a non-empty selection
C14_Witness ==
    /\ call.op = "set_selection"
    /\ call.args[1] > call.n /\ call.args[1] > call.args[2]
    /\ get_selection # None
    /\ get_selection[1] = call.args[2] /\ get_selection[1] < get_selection[2]

\* C15: get_selected_text does not panic; with a selection (s, e) it returns
\* the characters at [min(s, len), min(e, len)) of the current content, len
\* being the current length, and without a selection it returns None.
C15_SelectedTextClamped ==
    call.op = "get_selected_text" =>
      /\ ~panicked
      /\ ret = Ret("Option<String>",
                   IF get_selection = None THEN None
                   ELSE LET s == Min(get_selection[1], char_count)
                            e == Min(get_selection[2], char_count)
                        IN  Some(SubSeq(get_content, s + 1, e)))

\* get_selected_text has returned a non-empty text for a selection that ends
\* beyond the end of the buffer
C15_Witness ==
    /\ call.op = "get_selected_text"
    /\ get_selection # None
    /\ get_selection[1] < char_count /\ char_count < get_selection[2]
    /\ ret[2] # None /\ ret[2][1] # <<>>

(***************************************************************************)
(* Window and fence properties (specification SpecHl)                      *)
(***************************************************************************)
\* the highlighting of every line of the document returns
DocumentReturns ==
    highlight_lines(BUFFER, 0, line_count, FALSE, <<>>).returns

\* the fence state in front of line i when the document is highlighted from
\* line 0, and the spans of line i in that state
RECURSIVE StateFromTop(_, _, _, _, _)
StateFromTop(rope, k, i, in_code_block, code_lang) ==
    IF k >= i THEN [in_code_block |-> in_code_block, code_lang |-> code_lang]
    ELSE LET line == highlight_line(trim_end_matches_newline(Rope_line(rope, k)),
                                    in_code_block, code_lang)
         IN  StateFromTop(rope, k + 1, i, line.in_code_block, line.code_lang)

SpansFromTop(rope, i) ==
    LET state == StateFromTop(rope, 0, i, FALSE, <<>>)
    IN  highlight_line(trim_end_matches_newline(Rope_line(rope, i)),
                       state.in_code_block, state.code_lang).spans

\* C17: get_visible_lines(start, count) and get_highlighted_lines(start,
\* count) (on a document whose lines all highlight) do not fail and return
\* exactly the lines with index in [min(start, total), min(start + count,
\* total)), in order, each numbered index + 1, get_visible_lines with the
\* line's text without its line break.
C17_WindowIsClamped ==
    call.op \in {"get_visible_lines", "get_highlighted_lines"}
    /\ (call.op = "get_highlighted_lines" => DocumentReturns)
    => LET start == call.args[1]
           count == call.args[2]
           total == line_count
           lo == Min(start, total)
           hi == Min(start + count, total)
       IN  /\ ~panicked
           /\ Len(ret[2]) = Max(hi - lo, 0)
           /\ \A k \in DOMAIN ret[2] :
                /\ ret[2][k].num = (lo + k - 1) + 1
                /\ call.op = "get_visible_lines" =>
                     ret[2][k].content
                       = trim_end_matches_newline(Rope_line(BUFFER, lo + k - 1))

\* C18: every call of get_highlighted_lines comes back: it ends in a panic
\* only when the sum of its window overflows.
C18_HighlightingReturns ==
    /\ call.op = "get_highlighted_lines"
    /\ ~add_overflows(Min(call.args[1], line_count), call.args[2])
    => ~panicked

\* C19: the spans get_highlighted_lines returns for a line are those the
\* line has when the document is highlighted from line 0, whatever the
\* window.
C19_FenceStateConsistent ==
    call.op = "get_highlighted_lines" /\ ~panicked
    => \A k \in DOMAIN ret[2] :
         ret[2][k].spans = SpansFromTop(BUFFER, ret[2][k].num - 1)

\* a window that starts inside the second fenced block, behind a first
\* block of another language, has returned a line tokenized as css
C19_Witness ==
    /\ call.op = "get_highlighted_lines" /\ ~panicked
    /\ call.args[1] >= 3 /\ call.args[1] < line_count
    /\ starts_with(Rope_line(BUFFER, 0), CodeFence \o <<"x">>)
    /\ StateFromTop(BUFFER, 0, 2, FALSE, <<>>).in_code_block = FALSE
    /\ StateFromTop(BUFFER, 0, call.args[1], FALSE, <<>>).code_lang = <<"c", "s", "s">>
    /\ ret[2] # <<>>
    /\ \E n \in DOMAIN ret[2][1].spans : ret[2][1].spans[n].style = "code-property"

(***************************************************************************)
(* Heading properties (specification SpecHeading)                          *)
(***************************************************************************)
\* the number of '#' the text begins with
RECURSIVE LeadingHashes(_)
LeadingHashes(text) ==
    IF text # <<>> /\ Head(text) = "#" THEN 1 + LeadingHashes(Tail(text)) ELSE 0

HeadingStyles ==
    <<"heading h1", "heading h2", "heading h3", "heading h4", "heading h5", "heading h6">>

\* C20: a line outside a fenced block that begins with n '#', 1 <= n <= 6,
\* and a space right behind them yields the single span (line, "heading hn");
\* any other line outside a fenced block yields no span of a heading style.
C20_HeadingIffHashesAndSpace ==
    call.op = "get_highlighted_lines" /\ ~panicked
    => \A k \in DOMAIN ret[2] :
         LET i == ret[2][k].num - 1
             content == trim_end_matches_newline(Rope_line(BUFFER, i))
             n == LeadingHashes(content)
             outside == /\ ~StateFromTop(BUFFER, 0, i, FALSE, <<>>).in_code_block
                        /\ ~starts_with(trim_start(content), CodeFence)
         IN  outside =>
               IF 1 <= n /\ n <= 6 /\ Len(content) > n /\ content[n + 1] = " "
               THEN ret[2][k].spans = <<Span(content, HeadingStyles[n])>>
               ELSE \A m \in DOMAIN ret[2][k].spans :
                      ret[2][k].spans[m].style \notin Range(HeadingStyles)

\* a line of six '#', a space and a character has been returned as a
\* heading of level 6
C20_Witness ==
    /\ call.op = "get_highlighted_lines" /\ ~panicked
    /\ get_content = <<"#", "#", "#", "#", "#", "#", " ", "a">>
    /\ ret[2] # <<>>
    /\ ret[2][1].spans = <<Span(get_content, "heading h6")>>

(***************************************************************************)
(* Lines of code (specification SpecCode)                                  *)
(***************************************************************************)
\* the spans returned for the last line of the window
LastLineSpans == ret[2][Len(ret[2])].spans

Count(text, c) == Cardinality({k \in DOMAIN text : text[k] = c})

\* the texts of the spans, one behind the other
RECURSIVE ConcatText(_)
ConcatText(spans) ==
    IF spans = <<>> THEN <<>> ELSE Head(spans).text \o ConcatText(Tail(spans))

\* Every delimiter of the line is unclosed: the line has a delimiter, and of
\* each kind at most one (a backtick, a '_', a '[' and no ']', and a '*' or
\* one "**"), so that none has a partner to close it.
AllUnclosed(line) ==
    /\ \E k \in DOMAIN line : line[k] \in {Backtick, "*", "_", "["}
    /\ Count(line, Backtick) <= 1
    /\ Count(line, "_") <= 1
    /\ Count(line, "[") <= 1
    /\ Count(line, "]") = 0
    /\ \/ Count(line, "*") <= 1
       \/ /\ Count(line, "*") = 2
          /\ \E k \in 1..(Len(line) - 1) : line[k] = "*" /\ line[k + 1] = "*"

\* C22: a line whose delimiters are all unclosed comes back as 'text' spans
\* only, and the texts of the spans, in order, are the characters of the
\* line, each exactly once.
C22_UnclosedDelimitersAreLiteral ==
    \A line \in InlineLines :
       (/\ call.op = "get_highlighted_lines"
        /\ get_content = line
        /\ AllUnclosed(line))
       => /\ \A k \in DOMAIN LastLineSpans : LastLineSpans[k].style = "text"
          /\ ConcatText(LastLineSpans) = line

(***************************************************************************)
(* The line classifier (specification SpecLine)                            *)
(***************************************************************************)
\* the number of ASCII digits the text begins with
RECURSIVE LeadingDigits(_)
LeadingDigits(text) ==
    IF text # <<>> /\ Head(text) \in AsciiDigits THEN 1 + LeadingDigits(Tail(text)) ELSE 0

\* the rules of the classifier, as the specification words them
FenceRule(line) == starts_with(trim_start(line), CodeFence)
HeadingRule(line) ==
    LET n == LeadingHashes(line)
    IN  1 <= n /\ n <= 6 /\ Len(line) > n /\ line[n + 1] = " "
BlockquoteRule(line) == starts_with(line, <<">">>)
HorizontalRule(line) == trim(line) \in {<<"-", "-", "-">>, <<"*", "*", "*">>, <<"_", "_", "_">>}
UnorderedRule(line) ==
    \E marker \in {"-", "*", "+"} : starts_with(trim_start(line), <<marker, " ">>)
OrderedRule(line) ==
    LET item == trim_start(line)
        n == LeadingDigits(item)
    IN  n >= 1 /\ starts_with(str_from(item, n), <<".", " ">>)
TableRule(line) == \E k \in DOMAIN line : line[k] = "|"

\* the first rule that matches
FirstRule(line) ==
    IF FenceRule(line) THEN "code-fence"
    ELSE IF HeadingRule(line) THEN HeadingStyles[LeadingHashes(line)]
    ELSE IF BlockquoteRule(line) THEN "blockquote"
    ELSE IF HorizontalRule(line) THEN "hr"
    ELSE IF UnorderedRule(line) THEN "unordered"
    ELSE IF OrderedRule(line) THEN "ordered"
    ELSE IF TableRule(line) THEN "table"
    ELSE "inline"

\* the rule the spans of a line come from: one span of a block style, the
\* marker of a list item behind its indentation, or spans of inline styles
RuleOfSpans(spans) ==
    IF Len(spans) = 1 /\ spans[1].style \in {"code-fence", "blockquote", "hr", "table"}
                                             \cup Range(HeadingStyles)
    THEN spans[1].style
    ELSE IF Len(spans) >= 2 /\ spans[2].style = "list-marker"
    THEN IF spans[2].text # <<>> /\ Head(spans[2].text) \in {"-", "*", "+"}
         THEN "unordered" ELSE "ordered"
    ELSE IF \A k \in DOMAIN spans :
               spans[k].style \in {"text", "bold", "italic", "inline-code", "link"}
    THEN "inline"
    ELSE "other"

\* the document is one line, and it was highlighted
OneLineHighlighted ==
    /\ call.op = "get_highlighted_lines"
    /\ len_lines(BUFFER) = 1
    /\ Len(ret[2]) = 1

\* C23: the spans of a line outside a fenced block come from the first rule
\* that matches, in the order fence delimiter, heading, blockquote,
\* horizontal rule, unordered list item, ordered list item, table, inline
\* formatting.
C23_FirstMatchingRuleDecides ==
    OneLineHighlighted => RuleOfSpans(ret[2][1].spans) = FirstRule(get_content)

\* C24: a line that has, behind its indentation, one or more digits and
\* then ". " comes back as the indentation in a 'text' span, the marker in a
\* 'list-marker' span, and behind them what inline formatting makes of the
\* remainder of the line.  The marker is the digits and the '.', with or
\* without the space that follows them; the remainder is what follows the
\* marker.
C24_OrderedItemDecomposition ==
    (OneLineHighlighted /\ OrderedRule(get_content))
    => LET spans == ret[2][1].spans
           item == trim_start(get_content)
           indentation == SubSeq(get_content, 1, Len(get_content) - Len(item))
           n == LeadingDigits(item)
       IN  /\ Len(spans) >= 2
           /\ spans[1] = Span(indentation, "text")
           /\ spans[2].style = "list-marker"
           /\ \E m \in {n + 1, n + 2} :
                 /\ spans[2].text = SubSeq(item, 1, m)
                 /\ SubSeq(spans, 3, Len(spans)) = parse_inline(str_from(item, m))

\* C25: the texts of the spans of a returned line, one behind the other, are
\* the content of the line without its line break, whatever the fence state
\* in front of the line.
C25_SpansReproduceLine ==
    call.op = "get_highlighted_lines"
    => \A k \in DOMAIN ret[2] :
          ConcatText(ret[2][k].spans)
            = trim_end_matches_newline(Rope_line(BUFFER, ret[2][k].num - 1))

(***************************************************************************)
(* The frame of the calls (specification SpecFrame)                        *)
(***************************************************************************)
\* C28: undo and redo leave the stored selection as it is, and set_content,
\* insert_at, delete_range and replace_range leave the stored cursor and the
\* stored selection as they are.
C28_SelectionAndCursorFrame ==
    [][ /\ (call'.op \in {"undo", "redo"} => SELECTION' = SELECTION)
        /\ (call'.op \in {"set_content", "insert_at", "delete_range", "replace_range"}
              => CURSOR' = CURSOR /\ SELECTION' = SELECTION) ]_vars

\* an undo has restored another content, with a selection stored that
\* reaches beyond the restored content
C28_Witness ==
    /\ call.op = "undo"
    /\ ret = Some(TRUE)
    /\ SELECTION # None
    /\ SELECTION[2] > char_count

(***************************************************************************)
(* Repeated queries (specification SpecRepeat)                             *)
(***************************************************************************)
\* the step is a call of get_highlighted_lines with the window that `call`
\* keeps
RepeatStep ==
    /\ call.op = "get_highlighted_lines"
    /\ Do_get_highlighted_lines(call.args[1], call.args[2])

\* C27: get_highlighted_lines(start, count) called again on the same buffer
\* returns what it returned the first time, whichever windows were asked
\* for in between and whether or not reset_highlighting_state was called;
\* reset_highlighting_state leaves buffer, cursor, selection and both
\* stacks as they are.
C27_HighlightingIsRepeatable ==
    [][ /\ (RepeatStep => ret' = call.args[3])
        /\ (Do_reset_highlighting_state
              => UNCHANGED <<BUFFER, CURSOR, SELECTION, UNDO_STACK, REDO_STACK>>) ]_vars

\* the window over an opening fence and the line behind it has been asked
\* for again, after reset_highlighting_state and the window of the second
\* line alone
C27_Witness ==
    /\ call.op = "get_highlighted_lines"
    /\ get_content = CodeFence \o <<"\n", "a">>
    /\ <<call.args[1], call.args[2]>> = <<0, 2>>
    /\ ret = call.args[3]
    /\ "reset" \in hist.done

(***************************************************************************)
(* Lines of shell code (specification SpecCode)                            *)
(***************************************************************************)
\* C29: inside a fence of a shell language a line whose left-trimmed text
\* starts with '#' comes back as one 'code-comment' span, unless it starts
\* with "#!": a shebang line is tokenized and none of its spans is a comment.
C29_ShebangIsTokenized ==
    \A lang \in CodeLangs, line \in CodeLines :
       (/\ call.op = "get_highlighted_lines"
        /\ lang.name = <<"s", "h">>
        /\ get_content = CodeDoc(lang, line)
        /\ starts_with(trim_start(line), <<"#">>))
       => IF starts_with(trim_start(line), <<"#", "!">>)
          THEN \A k \in DOMAIN LastLineSpans : LastLineSpans[k].style # "code-comment"
          ELSE LastLineSpans = <<Span(line, "code-comment")>>

(***************************************************************************)
(* History properties (specification SpecHistory)                          *)
(***************************************************************************)
\* the entries of a history that are not the path, in their order
OtherEntries(entries, path) == SelectSeq(entries, LAMBDA p : p # path)

\* the first n and the last n entries
FirstEntries(entries, n) == SubSeq(entries, 1, n)
LastEntries(entries, n) == SubSeq(entries, Len(entries) - n + 1, Len(entries))

\* C30: in both variants, after add_to_history(p) from any history, p
\* occurs exactly once and is the most recent entry (the front in src-tauri,
\* the back in packages/app), the history has at most MAX_HISTORY entries,
\* and the entries beside p are the other entries of the history before, in
\* their order, less some at the least recent end only; after
\* remove_from_history(p) the history is the one before without every
\* occurrence of p, and nothing else has gone or moved.
C30_HistoryAddAndRemove ==
    [][ LET p      == call'.args[1]
            others == OtherEntries(history, p)
            rest   == Len(history') - 1
        IN  /\ (call'.op = "add_to_history" =>
                  /\ Count(history', p) = 1
                  /\ Len(history') <= MAX_HISTORY
                  /\ rest <= Len(others)
                  /\ (app = "src-tauri" =>
                        /\ history'[1] = p
                        /\ Tail(history') = FirstEntries(others, rest))
                  /\ (app = "packages/app" =>
                        /\ history'[Len(history')] = p
                        /\ Front(history') = LastEntries(others, rest)))
            /\ (call'.op = "remove_from_history" => history' = others) ]_vars

\* packages/app has added a path to a history that was over the cap, and the
\* write of the configuration failed: the file still holds the long history
C30_Witness ==
    /\ app = "packages/app"
    /\ call.op = "add_to_history"
    /\ Len(history) = MAX_HISTORY
    /\ history[Len(history)] = call.args[1]
    /\ Len(config_file) > MAX_HISTORY
    /\ Count(config_file, call.args[1]) > 0

=============================================================================
